---- MODULE Spec2Model ----
(***************************************************************************)
(* A model of fzf-import-cli: the relevance scorer, the symbol extractor   *)
(* and the import placement (Utils), the deduplicating Rank Stage          *)
(* (createDeduplicateStream), the search / select session                  *)
(* (streamingSearchAndSelect) and its caller (searchAndImport).            *)
(*                                                                         *)
(* Text is modelled as sequences of one-character strings, so that trim,   *)
(* split, includes and the two regular expressions of the scorer are       *)
(* computed character by character, as the JavaScript runtime does.        *)
(***************************************************************************)
EXTENDS Integers, Sequences, FiniteSets, TLC

(***************************************************************************)
(* Text helpers: JavaScript String operations on character sequences.      *)
(***************************************************************************)

\* A string literal as a sequence of one-character strings.
Str(s) == [i \in 1..Len(s) |-> SubSeq(s, i, i)]

Min(S) == CHOOSE x \in S : \A y \in S : x <= y

Max(S) == CHOOSE x \in S : \A y \in S : x >= y

\* The white space String.prototype.trim and the regex class \s remove.
WS == {" ", "\t", "\n", "\r"}

\* The characters the regex dot does not match.
LineTerminators == {"\n", "\r"}

Quotes == {"'", "\""}

\* The regex class \w.
WordChars ==
    LET a == Str("abcdefghijklmnopqrstuvwxyzABCDEFGHIJKLMNOPQRSTUVWXYZ0123456789_")
    IN  {a[i] : i \in 1..Len(a)}

\* String.prototype.trim
Trim(s) ==
    LET keep == {i \in 1..Len(s) : s[i] \notin WS}
    IN  IF keep = {} THEN <<>> ELSE SubSeq(s, Min(keep), Max(keep))

\* s has the literal lit at index p.
HasAt(s, p, lit) ==
    /\ p >= 1
    /\ p + Len(lit) - 1 <= Len(s)
    /\ SubSeq(s, p, p + Len(lit) - 1) = lit

\* String.prototype.includes
Includes(s, sub) == \E i \in 1..(Len(s) - Len(sub) + 1) : HasAt(s, i, sub)

\* String.prototype.startsWith
StartsWith(s, p) == HasAt(s, 1, p)

\* String.prototype.split on a one-character separator.
RECURSIVE Split(_, _)
Split(s, sep) ==
    IF \A i \in 1..Len(s) : s[i] # sep
    THEN <<s>>
    ELSE LET k == CHOOSE i \in 1..Len(s) :
                      s[i] = sep /\ \A j \in 1..(i - 1) : s[j] # sep
         IN  <<SubSeq(s, 1, k - 1)>> \o Split(SubSeq(s, k + 1, Len(s)), sep)

\* Array.prototype.join with a one-character separator.
RECURSIVE Join(_, _)
Join(parts, sep) ==
    IF Len(parts) = 0 THEN <<>>
    ELSE IF Len(parts) = 1 THEN parts[1]
    ELSE parts[1] \o <<sep>> \o Join(Tail(parts), sep)

\* The lines of one chunk of text: the pieces between line breaks, without
\* the empty piece after a final line break.
TextLines(text) ==
    LET pieces == Split(text, "\n")
    IN  IF text # <<>> /\ text[Len(text)] = "\n"
        THEN SubSeq(pieces, 1, Len(pieces) - 1)
        ELSE pieces

RECURSIVE Flatten(_)
Flatten(seqs) == IF Len(seqs) = 0 THEN <<>> ELSE Head(seqs) \o Flatten(Tail(seqs))

\* The first index at or after p that holds no white space (Len(s)+1 if none):
\* where a greedy \s* or \s+ that starts at p stops.
SkipWs(s, p) ==
    LET stops == {j \in p..Len(s) : s[j] \notin WS}
    IN  IF stops = {} THEN Len(s) + 1 ELSE Min(stops)

\* The last index of the maximal run of \w characters that starts at p
\* (p - 1 when s[p] is no word character).
WordRunEnd(s, p) ==
    LET stops == {j \in p..Len(s) : s[j] \notin WordChars}
    IN  IF stops = {} THEN Len(s) ELSE Min(stops) - 1

NoMatch == [ok |-> FALSE, text |-> <<>>]

Matched(t) == [ok |-> TRUE, text |-> t]

(***************************************************************************)
(* Utils.calculateRelevanceScore                                           *)
(***************************************************************************)

\* /from\s+['"](.*?)['"]/ tried at index i: the capture group.
ImportNameAt(s, i) ==
    IF ~HasAt(s, i, Str("from")) THEN NoMatch
    ELSE LET p == i + 4
             q == SkipWs(s, p)
         IN  IF q = p \/ q > Len(s) THEN NoMatch
             ELSE IF s[q] \notin Quotes THEN NoMatch
             ELSE LET closes == {j \in (q + 1)..Len(s) : s[j] \in Quotes}
                  IN  IF closes = {} THEN NoMatch
                      ELSE LET cap == SubSeq(s, q + 1, Min(closes) - 1)
                           IN  IF \E j \in 1..Len(cap) : cap[j] \in LineTerminators
                               THEN NoMatch
                               ELSE Matched(cap)

\* importMatch ? importMatch[1] : '' (the leftmost match of the regex)
ImportName(s) ==
    LET starts == {i \in 1..Len(s) : ImportNameAt(s, i).ok}
    IN  IF starts = {} THEN <<>> ELSE ImportNameAt(s, Min(starts)).text

\* ({[^}]*}|\*\s+as\s+\w+|\w+) tried at index q.
SymbolsGroupAt(s, q) ==
    IF q > Len(s) THEN NoMatch
    ELSE LET closes == {j \in (q + 1)..Len(s) : s[j] = "}"}
             a == SkipWs(s, q + 1)
             b == SkipWs(s, a + 2)
         IN  IF s[q] = "{" /\ closes # {}
             THEN Matched(SubSeq(s, q, Min(closes)))
             ELSE IF /\ s[q] = "*"
                     /\ a > q + 1
                     /\ HasAt(s, a, Str("as"))
                     /\ b > a + 2
                     /\ WordRunEnd(s, b) >= b
             THEN Matched(SubSeq(s, q, WordRunEnd(s, b)))
             ELSE IF WordRunEnd(s, q) >= q
             THEN Matched(SubSeq(s, q, WordRunEnd(s, q)))
             ELSE NoMatch

\* /import\s+(?:type\s+)?(...)/ tried at index i: the capture group. The
\* optional "type" is taken first; the regex backtracks to the match without
\* it when the group does not follow.
SymbolsAt(s, i) ==
    IF ~HasAt(s, i, Str("import")) THEN NoMatch
    ELSE LET p == i + 6
             q == SkipWs(s, p)
             t == SkipWs(s, q + 4)
             withType == IF HasAt(s, q, Str("type")) /\ t > q + 4
                         THEN SymbolsGroupAt(s, t)
                         ELSE NoMatch
         IN  IF q = p THEN NoMatch
             ELSE IF withType.ok THEN withType
             ELSE SymbolsGroupAt(s, q)

\* symbolsMatch ? symbolsMatch[1] : ''
SymbolsText(s) ==
    LET starts == {i \in 1..Len(s) : SymbolsAt(s, i).ok}
    IN  IF starts = {} THEN <<>> ELSE SymbolsAt(s, Min(starts)).text

\* The loop over the '/'-separated segments of the module path.
RECURSIVE SegmentBonus(_, _)
SegmentBonus(segments, kw) ==
    IF Len(segments) = 0 THEN 0
    ELSE (IF StartsWith(Head(segments), kw) THEN 30 ELSE 0)
         + SegmentBonus(Tail(segments), kw)

\* Mutation of PartsBonus: a group that is not the keyword alone is penalised.
PartsBonusPenalty(parts, kw) == 0 - 100

\* The loop over the comma-separated symbols of a brace group.
RECURSIVE PartsBonus(_, _)
PartsBonus(parts, kw) ==
    IF Len(parts) = 0 THEN 0
    ELSE (IF Trim(Head(parts)) = kw THEN 40
          ELSE IF StartsWith(Trim(Head(parts)), kw) THEN 20
          ELSE 0)
         + PartsBonus(Tail(parts), kw)

\* Mutation of PathScore: the module path contributes nothing.
PathScoreNone(importName, kw) == 0

\* The score the module path contributes.
PathScore(importName, kw) ==
    IF importName # <<>> /\ Includes(importName, kw)
    THEN 100
         + (IF importName = kw THEN 50 ELSE 0)
         + SegmentBonus(Split(importName, "/"), kw)
    ELSE 0

\* The score the imported symbols contribute.
SymbolsScore(symbolsText, kw) ==
    IF symbolsText # <<>> /\ Includes(symbolsText, kw)
    THEN LET hasDestructuring ==
                 /\ symbolsText[1] = "{"
                 /\ symbolsText[Len(symbolsText)] = "}"
             symbolParts ==
                 Split(SelectSeq(symbolsText, LAMBDA c : c \notin {"{", "}"}), ",")
         IN  80 + (IF hasDestructuring
                   THEN IF Len(symbolParts) = 1 /\ Trim(symbolParts[1]) = kw
                        THEN 60
                        ELSE PartsBonus(symbolParts, kw)
                   ELSE IF symbolsText = kw THEN 60
                        ELSE 40)
    ELSE 0

\* Utils.calculateRelevanceScore(importLine, keyword)
CalculateRelevanceScore(importLine, kw) ==
    IF kw = <<>> \/ importLine = <<>> THEN 0
    ELSE LET score == PathScore(ImportName(importLine), kw)
                      + SymbolsScore(SymbolsText(importLine), kw)
         IN  IF score = 0 /\ Includes(importLine, kw) THEN 10 ELSE score

(***************************************************************************)
(* Utils: the target file.  A file is its content, a text; NoFile stands   *)
(* for a path fs.readFileSync throws on.                                   *)
(***************************************************************************)

NoFile == <<"ENOENT">>

\* Mutation of SomeLineEquals: the lines are compared as they are.
SomeLineIdentical(lines, line) == \E i \in 1..Len(lines) : lines[i] = line

\* lines.some(l => l.trim() === line.trim())
SomeLineEquals(lines, line) == \E i \in 1..Len(lines) : Trim(lines[i]) = Trim(line)

\* Mutation of LineExistsInFile: the check finds nothing.
LineExistsNever(file, line) == FALSE

\* Utils.lineExistsInFile: false when the file cannot be read.
LineExistsInFile(file, line) ==
    IF file = NoFile THEN FALSE ELSE SomeLineEquals(Split(file, "\n"), line)

\* Mutation of IsBlankOrComment: only blank lines and line comments are skipped.
IsBlankOrLineComment(line) ==
    \/ line = <<>>
    \/ StartsWith(line, Str("//"))

\* !line || line.startsWith('//') || line.startsWith('/*') || line.startsWith('*')
IsBlankOrComment(line) ==
    \/ line = <<>>
    \/ StartsWith(line, Str("//"))
    \/ StartsWith(line, Str("/*"))
    \/ StartsWith(line, Str("*"))

\* line.startsWith('import ')
IsImportStatement(line) == StartsWith(line, Str("import "))

\* Mutation of InsertIndexFrom: the index after the first import statement.
RECURSIVE InsertIndexAfterImport(_, _, _)
InsertIndexAfterImport(lines, i, insertIndex) ==
    IF i >= Len(lines) THEN insertIndex
    ELSE IF IsBlankOrComment(Trim(lines[i + 1]))
         THEN InsertIndexAfterImport(lines, i + 1, i + 1)
         ELSE IF IsImportStatement(Trim(lines[i + 1])) THEN i + 1 ELSE i

\* The for loop of Utils.addImportToFile from index i (0-based) on, with the
\* value insertIndex has so far.
RECURSIVE InsertIndexFrom(_, _, _)
InsertIndexFrom(lines, i, insertIndex) ==
    IF i >= Len(lines) THEN insertIndex
    ELSE IF IsBlankOrComment(Trim(lines[i + 1]))
         THEN InsertIndexFrom(lines, i + 1, i + 1)
         ELSE IF IsImportStatement(Trim(lines[i + 1])) THEN i ELSE i

\* let insertIndex = 0, then the loop
InsertIndex(lines) == InsertIndexFrom(lines, 0, 0)

\* Mutation of Splice: the line at index is overwritten, splice(index, 1, line).
SpliceReplace(lines, index, line) ==
    SubSeq(lines, 1, index) \o <<line>> \o SubSeq(lines, index + 2, Len(lines))

\* lines.splice(index, 0, line)
Splice(lines, index, line) ==
    SubSeq(lines, 1, index) \o <<line>> \o SubSeq(lines, index + 1, Len(lines))

\* The lines Utils.addImportToFile writes back.
LinesWithImport(lines, importLine) == Splice(lines, InsertIndex(lines), importLine)

\* Utils.addImportToFile on a readable file: the content written.
AddImportToFile(file, importLine) ==
    Join(LinesWithImport(Split(file, "\n"), importLine), "\n")

\* FzfImport.addImportToFile: the outcome and the content of the file after.
AddImport(file, importLine) ==
    IF LineExistsInFile(file, importLine) THEN [result |-> "skipped", file |-> file]
    ELSE IF file = NoFile THEN [result |-> "threw", file |-> file]
    ELSE [result |-> "added", file |-> AddImportToFile(file, importLine)]

(***************************************************************************)
(* Utils.getSymbolAtPosition                                               *)
(***************************************************************************)

\* Mutation of IsWordChar: every character counts as part of a word.
IsWordCharAny(char) == TRUE

\* /[a-zA-Z0-9_$]/.test(char)
IsWordChar(char) == char \in WordChars \cup {"$"}

\* while (start > 0 && isWordChar(line[start - 1])) start-- (0-based)
RECURSIVE WordStart(_, _)
WordStart(line, start) ==
    IF start > 0 /\ IsWordChar(line[start]) THEN WordStart(line, start - 1) ELSE start

\* Mutation of WordEnd: the word ends at the position asked for.
WordEndHere(line, end) == end

\* while (end < line.length - 1 && isWordChar(line[end + 1])) end++ (0-based)
RECURSIVE WordEnd(_, _)
WordEnd(line, end) ==
    IF end < Len(line) - 1 /\ IsWordChar(line[end + 2]) THEN WordEnd(line, end + 1) ELSE end

\* line.substring(start, end + 1) (0-based, end exclusive)
Substring(line, from, to) == SubSeq(line, from + 1, to)

\* The word around colIndex in line.
SymbolIn(line, colIndex) ==
    IF colIndex < 0 \/ colIndex >= Len(line) THEN NoMatch
    ELSE IF ~IsWordChar(line[colIndex + 1]) THEN NoMatch
    ELSE Matched(Substring(line, WordStart(line, colIndex), WordEnd(line, colIndex) + 1))

\* The line at lineIndex, then the word in it.
SymbolInLines(lines, lineIndex, colIndex) ==
    IF lineIndex < 0 \/ lineIndex >= Len(lines) THEN NoMatch
    ELSE SymbolIn(lines[lineIndex + 1], colIndex)

\* Utils.getSymbolAtPosition: NoMatch is null; a read error is caught.
GetSymbolAtPosition(file, row, col) ==
    IF file = NoFile THEN NoMatch
    ELSE SymbolInLines(Split(file, "\n"), row - 1, col - 1)

(***************************************************************************)
(* State.  The Rank Stage instance of the session (createDeduplicateStream)*)
(* and the session itself (streamingSearchAndSelect).                      *)
(***************************************************************************)
VARIABLES
    keyword,        \* the keyword the stage was created with ('' = no-keyword mode)
    seen,           \* Set<string>: trimmed lines already accepted
    buffer,         \* the carry-over fragment
    scoreCache,     \* Map<string, number>
    currentBatch,   \* { line, score }[] (idx: arrival number, history only)
    stage,          \* "open" | "ended" (flush ran) | "destroyed"
    out,            \* history: the chunks the stage has pushed, in order
    lineNo,         \* history: number of complete lines that have arrived
    fed,            \* history: number of chunks written to the stage
    input,          \* history: the chunks written to the stage, in order
    twin            \* the variables of a second stream, while this one's handlers run

rankVars == <<keyword, seen, buffer, scoreCache, currentBatch, stage, out, lineNo, fed,
              input, twin>>

VARIABLES
    rgState,        \* search subprocess: "spawnfail" | "running" | "exited" | "closed"
    rgCode,         \* its exit code once exited (NullCode: ended by a signal)
    rgStdoutClosed, \* rg.stdout has ended: 'close' can be emitted
    rgKilled,       \* rg.killed
    rgSignals,      \* the signals delivered to the search subprocess, in order
    fzfState,       \* selector subprocess: "spawnfail" | "running" | "exited" | "closed"
    fzfCode,        \* its exit code once exited
    fzfKillSent,    \* fzf.kill() delivered SIGTERM to the selector
    fzfOutput,      \* let fzfOutput
    stdinLog,       \* the chunks written to fzf.stdin, in order
    stdinEnded,     \* fzf.stdin.end() was called
    piped,          \* number of pushed chunks the pipe has handed to fzf.stdin
    outcome,        \* the settlement of the promise
    timer,          \* the setTimeout of the teardown: "idle" | "armed" | "fired"
    hist            \* history: what the handlers did and what they found

procVars == <<rgState, rgCode, rgStdoutClosed, rgKilled, rgSignals,
              fzfState, fzfCode, fzfKillSent, fzfOutput>>

sessionVars == <<procVars, stdinLog, stdinEnded, piped, outcome, timer, hist>>

VARIABLES
    file,           \* the content of the target file
    file0,          \* history: its content when the session started
    caller,         \* searchAndImport / interactiveImport: "awaiting", then how it ended
    cli             \* the invocation of the command: its arguments, the mode chosen

callerVars == <<file, file0, caller, cli>>

VARIABLES
    scoreCall,      \* Utils.calculateRelevanceScore called on its own: inputs and results
    symbolCall,     \* Utils.getSymbolAtPosition called on its own: inputs and result
    placeCall       \* addImportToFile called on its own: the file, the line, the results

utilVars == <<scoreCall, symbolCall, placeCall>>

vars == <<rankVars, sessionVars, callerVars, utilVars>>

(***************************************************************************)
(* createDeduplicateStream                                                 *)
(***************************************************************************)

BATCH_SIZE == 20

\* Mutation of ShouldSort: every stream ranks.
ShouldSortAlways(kw) == TRUE

\* const shouldSort = keyword !== ''
ShouldSort(kw) == kw # <<>>

IsRelativeImport(line) ==
    Includes(line, Str("from './")) \/ Includes(line, Str("from '../"))

\* Mutation of NotSeen: the seen-set is not consulted.
NotSeenIgnoringSet(seenSet, t) == TRUE

\* !seen.has(trimmedLine)
NotSeen(seenSet, t) == t \notin seenSet

\* getScore: the cached score, or the computed one
GetScore(cache, line, kw) ==
    IF line \in DOMAIN cache THEN cache[line] ELSE CalculateRelevanceScore(line, kw)

\* scoreCache.set(line, score) (a cached line keeps its entry)
CachePut(cache, line, score) ==
    [l \in DOMAIN cache \cup {line} |-> IF l \in DOMAIN cache THEN cache[l] ELSE score]

\* Mutation of BatchBefore: the score difference is taken the other way round.
BatchBeforeAscending(a, b) ==
    \/ a.score - b.score < 0
    \/ a.score - b.score = 0 /\ Len(a.line) - Len(b.line) < 0

\* The comparator of processBatch is negative: a is placed before b.
BatchBefore(a, b) ==
    \/ b.score - a.score < 0
    \/ b.score - a.score = 0 /\ Len(a.line) - Len(b.line) < 0

\* e inserted into a sorted sequence after every entry it is not placed before
\* (Array.prototype.sort is stable).
RECURSIVE InsertSorted(_, _)
InsertSorted(sorted, e) ==
    IF Len(sorted) = 0 THEN <<e>>
    ELSE IF BatchBefore(e, Head(sorted)) THEN <<e>> \o sorted
    ELSE <<Head(sorted)>> \o InsertSorted(Tail(sorted), e)

\* currentBatch.sort(...)
RECURSIVE SortBatch(_)
SortBatch(batch) ==
    IF Len(batch) = 0 THEN <<>>
    ELSE InsertSorted(SortBatch(SubSeq(batch, 1, Len(batch) - 1)), batch[Len(batch)])

\* lines.join('\n') + '\n'
JoinLines(entries) == Join([i \in 1..Len(entries) |-> entries[i].line], "\n") \o <<"\n">>

\* One pushed chunk: its text, the arrival numbers of its lines in the order
\* they stand in the text, and the callback that pushed it.
Pushed(text, entries, by) ==
    [text |-> text, idx |-> [i \in 1..Len(entries) |-> entries[i].idx], by |-> by]

\* processBatch: the chunk pushed for a non-empty batch
ProcessBatch(batch, by) ==
    LET sorted == SortBatch(batch) IN Pushed(JoinLines(sorted), sorted, by)

\* Mutation of PushUnique: unshift instead of push.
PushUniqueFront(uniqueLines, e) == <<e>> \o uniqueLines

\* uniqueLines.push(line)
PushUnique(uniqueLines, e) == Append(uniqueLines, e)

\* Mutation of BatchFull: the batch is never processed by transform.
BatchFullNever(length) == FALSE

\* currentBatch.length >= BATCH_SIZE
BatchFull(length) == length >= BATCH_SIZE

\* transform, a line that is new: seen.add, then the batch (keyword mode) or
\* uniqueLines. st.returned: the loop is left by the return after processBatch.
Accept(line, trimmedLine, score, k, kw, st) ==
    IF ShouldSort(kw)
    THEN [st EXCEPT !.seen = @ \cup {trimmedLine},
                    !.cache = CachePut(@, trimmedLine, score),
                    !.batch = Append(@, [line |-> line, score |-> score,
                                         idx |-> st.base + k]),
                    !.returned = BatchFull(Len(st.batch) + 1)]
    ELSE [st EXCEPT !.seen = @ \cup {trimmedLine},
                    !.uniq = PushUnique(@, [line |-> line, idx |-> st.base + k])]

\* The body of the for loop of transform, for line k of the chunk.
LineBody(line, trimmedLine, k, kw, st) ==
    IF trimmedLine # <<>>
    THEN IF IsRelativeImport(trimmedLine) THEN st
         ELSE IF NotSeen(st.seen, trimmedLine)
         THEN Accept(line, trimmedLine, GetScore(st.cache, trimmedLine, kw), k, kw, st)
         ELSE st
    ELSE IF ~ShouldSort(kw)
         THEN [st EXCEPT !.uniq = PushUnique(@, [line |-> line, idx |-> st.base + k])]
         ELSE st

\* const trimmedLine = line.trim(), then the body.
LineStep(line, k, kw, st) == LineBody(line, Trim(line), k, kw, st)

\* The for loop of transform over the complete lines, from line k on.
RECURSIVE TransformLoop(_, _, _, _)
TransformLoop(lines, k, kw, st) ==
    IF k > Len(lines) \/ st.returned THEN st
    ELSE TransformLoop(lines, k + 1, kw, LineStep(lines[k], k, kw, st))

\* Mutation of CarryOver: the incomplete last line is not kept.
CarryOverDropped(pieces) == <<>>

\* buffer = lines.pop() || ''
CarryOver(pieces) == pieces[Len(pieces)]

\* The end of transform: what the loop left is stored, and the callback gets
\* the sorted batch (after the return), the unique lines, or nothing.
TransformDone(pieces, r) ==
    /\ buffer' = CarryOver(pieces)
    /\ seen' = r.seen
    /\ scoreCache' = r.cache
    /\ lineNo' = lineNo + Len(pieces) - 1
    /\ fed' = fed + 1
    /\ IF r.returned
       THEN /\ out' = Append(out, ProcessBatch(r.batch, "transform"))
            /\ currentBatch' = <<>>
       ELSE /\ currentBatch' = r.batch
            /\ out' = IF ~ShouldSort(keyword) /\ Len(r.uniq) > 0
                      THEN Append(out, Pushed(JoinLines(r.uniq), r.uniq, "transform"))
                      ELSE out
    /\ UNCHANGED <<keyword, stage, twin>>

\* transform, after buffer.split('\n'): the last piece is kept, the others
\* are the complete lines.
TransformPieces(pieces) ==
    TransformDone(pieces,
        TransformLoop(SubSeq(pieces, 1, Len(pieces) - 1), 1, keyword,
            [seen |-> seen, cache |-> scoreCache, batch |-> currentBatch,
             uniq |-> <<>>, base |-> lineNo, returned |-> FALSE]))

\* transform(chunk, encoding, callback)
Transform(chunk) ==
    /\ input' = Append(input, chunk)
    /\ TransformPieces(Split(buffer \o chunk, "\n"))

\* Mutation of FlushBatch: the batch is kept, nothing is pushed.
FlushBatchKept(batch) ==
    /\ out' = out
    /\ currentBatch' = batch

\* The end of flush (keyword mode, or nothing to push): the batch, with the
\* residual line if it was accepted, goes through processBatch.
FlushBatch(batch) ==
    IF ShouldSort(keyword) /\ Len(batch) > 0
    THEN /\ out' = Append(out, ProcessBatch(batch, "flush"))
         /\ currentBatch' = <<>>
    ELSE /\ out' = out
         /\ currentBatch' = batch

\* flush, the residual line is new: seen.add, then the batch (keyword mode)
\* or the callback with the buffer as it is.
FlushAccept(trimmedLine, last) ==
    /\ seen' = seen \cup {trimmedLine}
    /\ IF ShouldSort(keyword)
       THEN /\ scoreCache' = CachePut(scoreCache, trimmedLine, last.score)
            /\ FlushBatch(Append(currentBatch, last))
       ELSE /\ scoreCache' = scoreCache
            /\ out' = Append(out, Pushed(buffer, <<last>>, "flush"))
            /\ currentBatch' = currentBatch

\* flush, with trimmedLine = buffer.trim()
FlushLine(trimmedLine) ==
    /\ IF /\ trimmedLine # <<>>
          /\ ~IsRelativeImport(trimmedLine)
          /\ NotSeen(seen, trimmedLine)
       THEN FlushAccept(trimmedLine,
                [line |-> buffer,
                 score |-> IF ShouldSort(keyword)
                           THEN GetScore(scoreCache, trimmedLine, keyword)
                           ELSE 0,
                 idx |-> lineNo + 1])
       ELSE /\ seen' = seen
            /\ scoreCache' = scoreCache
            /\ FlushBatch(currentBatch)
    /\ stage' = "ended"
    /\ UNCHANGED <<keyword, buffer, lineNo, fed, input, twin>>

\* flush(callback)
Flush == FlushLine(Trim(buffer))

(***************************************************************************)
(* The Rank Stage alone: chunks are written to it, then the input ends.    *)
(***************************************************************************)

\* The number of chunks written to one stage.
MaxChunks == 3

Keywords == {<<>>, Str("Foo")}

\* A chunk that ends inside a line.
ChunkA ==
    Str("import { Foo } from 'lib'\n  import { Foo } from 'lib' \nimport a from './Foo'\nimport Foo fr")

\* The rest of that line, a blank line, a relative import in double quotes,
\* and a last line without a line break.
ChunkB ==
    Str("om 'Foo'\n\nimport b from \"./Foo\"\nimport { Foo, Bar } from 'lib'")

ChunkC ==
    Str("\nimport a from '../Foo'\nimport Foo from 'Foo'\n// Foo\n")

\* 23 distinct lines: more than one batch.
ChunkBig ==
    Str("a1\nFoo1\nb\nFoo\nc1\nd\ne\nf\ng\nh\ni\nj\nk\nl\nm\nn\no\np\nq\nr\ns\nt\nimport { Foo } from 'Foo'\n")

\* An unfinished line that is a relative import.
ChunkRel == Str("import d from '../d'")

\* White space only, no line break.
ChunkWs == Str("  ")

Chunks == {ChunkA, ChunkB, ChunkC, ChunkBig, ChunkRel, ChunkWs}

\* No second stream.
NoTwin == [stage |-> "none"]

\* The state createDeduplicateStream(keyword) returns the stream in.
StageInit ==
    /\ keyword \in Keywords
    /\ seen = {}
    /\ buffer = <<>>
    /\ scoreCache = <<>>
    /\ currentBatch = <<>>
    /\ stage = "open"
    /\ out = <<>>
    /\ lineNo = 0
    /\ fed = 0
    /\ input = <<>>
    /\ twin = NoTwin

(***************************************************************************)
(* streamingSearchAndSelect: the promise, the two subprocesses, the pipe.  *)
(***************************************************************************)

\* code is null: the process was ended by a signal.
NullCode == -1

\* The code 'close' reports after a failed spawn (the negative errno).
SpawnFailCode == -2

Pending == [kind |-> "pending", value |-> <<>>]

\* resolve(null)
ResolvedNull == [kind |-> "null", value |-> <<>>]

\* resolve(line)
Resolved(line) == [kind |-> "line", value |-> line]

\* reject(new Error(...))
Failed(why) == [kind |-> "failed", value |-> Str(why)]

\* Mutation of Settle: a rejection replaces an earlier resolution.
SettleFailureWins(current, result) ==
    IF current = Pending \/ result.kind = "failed" THEN result ELSE current

\* Mutation of Settle: the last call wins.
SettleAgain(current, result) == result

\* resolve / reject: a promise settles once; later calls change nothing.
Settle(current, result) == IF current = Pending THEN result ELSE current

NoHist ==
    [teardowns |-> 0,          \* times the teardown block of fzf 'close' ran
     killCalls |-> <<>>,       \* rg.kill calls: [sig, delivered]
     fzfKillCalled |-> FALSE,  \* fzf.kill() was called
     rgClose |-> "none",       \* rg 'close' handler: outcome kind it found
     fzfClose |-> "none",      \* fzf 'close' handler: outcome kind it found
     fzfCloseRg |-> "none",    \* fzf 'close' handler: rgState it found
     timerSaw |-> "none",      \* timer callback: rgState it found
     lostWrites |-> 0,         \* chunks the pipe could not write to fzf.stdin
     epipe |-> {}]             \* emitters whose EPIPE 'error' a handler has seen

NoCandidate == [form |-> "raw", symbols |-> <<>>, path |-> <<>>]

NoScoreCall == [fn |-> "none", kw |-> <<>>, a |-> NoCandidate, b |-> NoCandidate,
                sa |-> 0, sb |-> 0]

NoSymbolCall == [fn |-> "none", file |-> <<>>, row |-> 0, col |-> 0, result |-> NoMatch]

NoPlaceCall == [fn |-> "none", file0 |-> <<>>, line |-> <<>>, file |-> <<>>, results |-> <<>>]

\* No Utils function is being called on its own.
NoUtilCall ==
    /\ scoreCall = NoScoreCall
    /\ symbolCall = NoSymbolCall
    /\ placeCall = NoPlaceCall

\* No session: the Rank Stage is driven directly.
\* No invocation of the command: the methods are called directly.
NoCli ==
    [state |-> "none", form |-> "file", row |-> 0, col |-> 0, keyword |-> <<>>,
     mode |-> "none", sessions |-> 0]

NoSession ==
    /\ rgState = "none"
    /\ rgCode = NullCode
    /\ rgStdoutClosed = FALSE
    /\ rgKilled = FALSE
    /\ rgSignals = <<>>
    /\ fzfState = "none"
    /\ fzfCode = NullCode
    /\ fzfKillSent = FALSE
    /\ fzfOutput = <<>>
    /\ stdinLog = <<>>
    /\ stdinEnded = FALSE
    /\ piped = 0
    /\ outcome = Pending
    /\ timer = "idle"
    /\ hist = NoHist
    /\ file = <<>>
    /\ file0 = <<>>
    /\ caller = "none"
    /\ cli = NoCli
    /\ NoUtilCall

\* A target file: a comment, then an import that is also a search result.
FileWithFoo == Str("// c\nimport { Foo } from 'lib'\nf()")

TargetFiles == {FileWithFoo}

\* After the synchronous body of the promise executor: both spawn calls have
\* returned (each has started its process or failed to), the pipe and the
\* handlers are set up.
SessionInit ==
    /\ StageInit
    /\ rgState \in {"running", "spawnfail"}
    /\ rgCode = NullCode
    /\ rgStdoutClosed = FALSE
    /\ rgKilled = FALSE
    /\ rgSignals = <<>>
    /\ fzfState \in {"running", "spawnfail"}
    /\ fzfCode = NullCode
    /\ fzfKillSent = FALSE
    /\ fzfOutput = <<>>
    /\ stdinLog = <<>>
    /\ stdinEnded = FALSE
    /\ piped = 0
    /\ outcome = Pending
    /\ timer = "idle"
    /\ hist = NoHist
    /\ file \in TargetFiles
    /\ file0 = file
    /\ caller = "awaiting"
    /\ cli = NoCli
    /\ NoUtilCall

\* The promise has settled and the awaiting caller has not resumed yet: its
\* continuation is a microtask, which runs before the next event's handler.
Resuming == caller = "awaiting" /\ outcome # Pending

\* The 'error' events of failed spawns are emitted on the next tick, before
\* any event of a running process.
Launched == rgState # "spawnfail" /\ fzfState # "spawnfail"

\* The number of chunks the search subprocess writes.
MaxRgChunks == 1

\* The number of lines the selector prints.
MaxFzfWrites == 1

SessionChunks == {ChunkA, ChunkB}

\* Exit codes of the search subprocess: matches, no matches, error.
RgExitCodes == {0, 1, 2}

\* Exit codes of the selector: selection, no match, error, interrupted.
FzfExitCodes == {0, 1, 2, 130}

\* Mutation of KillDelivered: the kill is left out.
KillNeverDelivered(state) == FALSE

\* subprocess.kill(): the signal is sent when the process is still there.
KillDelivered(state) == state = "running"

\* Mutation of RgCloseFails: only codes above 2 are failures.
RgCloseFailsAboveTwo(code) == code > 2

\* rg 'close': the branch else if (code !== 0), after if (code === 1).
RgCloseFails(code) == code # 1 /\ code # 0

\* Mutation of FzfCloseResult: code 130 is not told apart from a failure.
FzfCloseResultNoCancel(code, output) ==
    IF code # 0 THEN Failed("fzf failed")
    ELSE IF Trim(output) # <<>> THEN Resolved(Trim(output))
    ELSE ResolvedNull

\* Mutation of FzfCloseResult: the output is not trimmed.
FzfCloseResultUntrimmed(code, output) ==
    IF code = 130 THEN ResolvedNull
    ELSE IF code # 0 THEN Failed("fzf failed")
    ELSE IF output # <<>> THEN Resolved(output)
    ELSE ResolvedNull

\* fzf 'close': what the handler settles the promise with.
FzfCloseResult(code, output) ==
    IF code = 130 THEN ResolvedNull
    ELSE IF code # 0 THEN Failed("fzf failed")
    ELSE IF Trim(output) # <<>> THEN Resolved(Trim(output))
    ELSE ResolvedNull

\* Mutation of IsEpipe: no error is recognised as a broken pipe.
IsEpipeNever(code) == FALSE

\* err.code === 'EPIPE'
IsEpipe(code) == code = "EPIPE"

\* Mutation of RgErrorResult: every error is only logged.
RgErrorResultLogged(code, current) == current

\* rg.on('error', (err) => ...): EPIPE is logged, anything else rejects.
RgErrorResult(code, current) ==
    IF IsEpipe(code) THEN current
    ELSE Settle(current, Failed("Failed to start ripgrep"))

\* The error handlers of rg.stdout and of the Rank Stage: both branches log.
StreamErrorResult(code, current) ==
    IF IsEpipe(code) THEN current ELSE current

\* The selector has stopped reading: a broken pipe can be reported.
SelectorGone == fzfState \in {"exited", "closed"}

\* rg.stdout 'data': the pipe writes the chunk to the Rank Stage.
RgData ==
    /\ ~Resuming
    /\ Launched
    /\ rgState = "running"
    /\ stage = "open"
    /\ fed < MaxRgChunks
    /\ \E chunk \in SessionChunks : Transform(chunk)
    /\ UNCHANGED sessionVars
    /\ UNCHANGED <<callerVars, utilVars>>

\* The search subprocess exits by itself. Code 1 means it found (and wrote)
\* nothing.
RgExit ==
    /\ ~Resuming
    /\ Launched
    /\ rgState = "running"
    /\ \E code \in RgExitCodes :
           /\ code = 1 => fed = 0
           /\ rgCode' = code
    /\ rgState' = "exited"
    /\ UNCHANGED <<rankVars, rgStdoutClosed, rgKilled, rgSignals, fzfState, fzfCode,
                   fzfKillSent, fzfOutput, stdinLog, stdinEnded, piped, outcome,
                   timer, hist>>
    /\ UNCHANGED <<callerVars, utilVars>>

\* The search subprocess is ended by a signal it was sent.
RgKilledBySignal ==
    /\ ~Resuming
    /\ Launched
    /\ rgState = "running"
    /\ rgSignals # <<>>
    /\ rgCode' = NullCode
    /\ rgState' = "exited"
    /\ UNCHANGED <<rankVars, rgStdoutClosed, rgKilled, rgSignals, fzfState, fzfCode,
                   fzfKillSent, fzfOutput, stdinLog, stdinEnded, piped, outcome,
                   timer, hist>>
    /\ UNCHANGED <<callerVars, utilVars>>

\* rg.stdout 'end': the pipe ends the Rank Stage, which runs flush (unless
\* the stage was destroyed, which also removed the pipe).
RgStdoutEnd ==
    /\ ~Resuming
    /\ Launched
    /\ rgState = "exited"
    /\ ~rgStdoutClosed
    /\ rgStdoutClosed' = TRUE
    /\ IF stage = "open" THEN Flush ELSE UNCHANGED rankVars
    /\ UNCHANGED <<rgState, rgCode, rgKilled, rgSignals, fzfState, fzfCode,
                   fzfKillSent, fzfOutput, stdinLog, stdinEnded, piped, outcome,
                   timer, hist>>
    /\ UNCHANGED <<callerVars, utilVars>>

\* The pipe from the Rank Stage to fzf.stdin hands over the next pushed chunk.
\* It may do so later than the push (fzf.stdin's buffer was full). A chunk
\* written after end(), or to a selector that has gone, is lost.
PipeWrite ==
    /\ ~Resuming
    /\ Launched
    /\ stage # "destroyed"
    /\ piped < Len(out)
    /\ piped' = piped + 1
    /\ IF ~stdinEnded /\ fzfState = "running"
       THEN /\ stdinLog' = Append(stdinLog, out[piped + 1].text)
            /\ hist' = hist
       ELSE /\ stdinLog' = stdinLog
            /\ hist' = [hist EXCEPT !.lostWrites = @ + 1]
    /\ UNCHANGED <<rankVars, procVars, stdinEnded, outcome, timer>>
    /\ UNCHANGED <<callerVars, utilVars>>

\* The Rank Stage's 'end' (all pushed chunks read): the pipe ends fzf.stdin.
PipeEnd ==
    /\ ~Resuming
    /\ Launched
    /\ stage = "ended"
    /\ piped = Len(out)
    /\ ~stdinEnded
    /\ stdinEnded' = TRUE
    /\ UNCHANGED <<rankVars, procVars, stdinLog, piped, outcome, timer, hist>>
    /\ UNCHANGED <<callerVars, utilVars>>

\* rg.on('close', (code) => ...)
RgClose ==
    /\ ~Resuming
    /\ Launched
    /\ rgState = "exited"
    /\ rgStdoutClosed
    /\ rgState' = "closed"
    /\ IF RgCloseFails(rgCode)
       THEN /\ fzfKillSent' = (fzfKillSent \/ KillDelivered(fzfState))
            /\ outcome' = Settle(outcome, Failed("ripgrep failed"))
            /\ stdinEnded' = stdinEnded
            /\ hist' = [hist EXCEPT !.rgClose = outcome.kind, !.fzfKillCalled = TRUE]
       ELSE /\ stdinEnded' = TRUE
            /\ hist' = [hist EXCEPT !.rgClose = outcome.kind]
            /\ UNCHANGED <<fzfKillSent, outcome>>
    /\ UNCHANGED <<rankVars, rgCode, rgStdoutClosed, rgKilled, rgSignals, fzfState,
                   fzfCode, fzfOutput, stdinLog, piped, timer>>
    /\ UNCHANGED <<callerVars, utilVars>>

\* The user picks one of the lines the selector was given; the selector
\* prints it. fzf.stdout 'data': fzfOutput += data.toString()
FzfData ==
    /\ ~Resuming
    /\ Launched
    /\ fzfState = "running"
    /\ Cardinality({i \in 1..Len(fzfOutput) : fzfOutput[i] = "\n"}) < MaxFzfWrites
    /\ \E c \in 1..Len(stdinLog) :
           \E line \in {TextLines(stdinLog[c])[i] : i \in 1..Len(TextLines(stdinLog[c]))} :
               fzfOutput' = fzfOutput \o line \o <<"\n">>
    /\ UNCHANGED <<rankVars, rgState, rgCode, rgStdoutClosed, rgKilled, rgSignals,
                   fzfState, fzfCode, fzfKillSent, stdinLog, stdinEnded, piped,
                   outcome, timer, hist>>
    /\ UNCHANGED <<callerVars, utilVars>>

\* The selector exits by itself (the user accepts, aborts, or it fails).
FzfExit ==
    /\ ~Resuming
    /\ Launched
    /\ fzfState = "running"
    /\ \E code \in FzfExitCodes : fzfCode' = code
    /\ fzfState' = "exited"
    /\ UNCHANGED <<rankVars, rgState, rgCode, rgStdoutClosed, rgKilled, rgSignals,
                   fzfKillSent, fzfOutput, stdinLog, stdinEnded, piped, outcome,
                   timer, hist>>
    /\ UNCHANGED <<callerVars, utilVars>>

\* The selector is ended by the SIGTERM of fzf.kill().
FzfKilledBySignal ==
    /\ ~Resuming
    /\ Launched
    /\ fzfState = "running"
    /\ fzfKillSent
    /\ fzfCode' = NullCode
    /\ fzfState' = "exited"
    /\ UNCHANGED <<rankVars, rgState, rgCode, rgStdoutClosed, rgKilled, rgSignals,
                   fzfKillSent, fzfOutput, stdinLog, stdinEnded, piped, outcome,
                   timer, hist>>
    /\ UNCHANGED <<callerVars, utilVars>>

\* fzf.on('close', (code) => ...): the teardown block, then the settlement.
FzfClose ==
    /\ ~Resuming
    /\ Launched
    /\ fzfState = "exited"
    /\ fzfState' = "closed"
    /\ IF ~rgKilled
       THEN /\ rgSignals' = IF KillDelivered(rgState)
                            THEN Append(rgSignals, "SIGTERM")
                            ELSE rgSignals
            /\ rgKilled' = KillDelivered(rgState)
            /\ timer' = "armed"
            /\ hist' = [hist EXCEPT
                   !.teardowns = @ + 1,
                   !.killCalls = Append(@, [sig |-> "SIGTERM",
                                            delivered |-> KillDelivered(rgState)]),
                   !.fzfClose = outcome.kind,
                   !.fzfCloseRg = rgState]
       ELSE /\ hist' = [hist EXCEPT
                   !.teardowns = @ + 1,
                   !.fzfClose = outcome.kind,
                   !.fzfCloseRg = rgState]
            /\ UNCHANGED <<rgSignals, rgKilled, timer>>
    /\ stage' = "destroyed"
    /\ outcome' = Settle(outcome, FzfCloseResult(fzfCode, fzfOutput))
    /\ UNCHANGED <<keyword, seen, buffer, scoreCache, currentBatch, out, lineNo, fed, input, twin,
                   rgState, rgCode, rgStdoutClosed, fzfCode, fzfKillSent, fzfOutput,
                   stdinLog, stdinEnded, piped>>
    /\ UNCHANGED <<callerVars, utilVars>>

\* The callback of setTimeout(..., 1000) in the teardown.
GraceTimer ==
    /\ ~Resuming
    /\ timer = "armed"
    /\ timer' = "fired"
    /\ IF ~rgKilled
       THEN /\ rgSignals' = IF KillDelivered(rgState)
                            THEN Append(rgSignals, "SIGKILL")
                            ELSE rgSignals
            /\ rgKilled' = KillDelivered(rgState)
            /\ hist' = [hist EXCEPT
                   !.killCalls = Append(@, [sig |-> "SIGKILL",
                                            delivered |-> KillDelivered(rgState)]),
                   !.timerSaw = rgState]
       ELSE /\ hist' = [hist EXCEPT !.timerSaw = rgState]
            /\ UNCHANGED <<rgSignals, rgKilled>>
    /\ UNCHANGED <<rankVars, rgState, rgCode, rgStdoutClosed, fzfState, fzfCode,
                   fzfKillSent, fzfOutput, stdinLog, stdinEnded, piped, outcome>>
    /\ UNCHANGED <<callerVars, utilVars>>

\* rg.on('error', ...) with the error of a failed spawn (not EPIPE). 'close'
\* follows with the negative errno as code; rg.stdout never carries data.
RgError ==
    /\ ~Resuming
    /\ rgState = "spawnfail"
    /\ rgState' = "exited"
    /\ rgCode' = SpawnFailCode
    /\ rgStdoutClosed' = TRUE
    /\ outcome' = RgErrorResult("ENOENT", outcome)
    /\ UNCHANGED <<rankVars, rgKilled, rgSignals, fzfState, fzfCode, fzfKillSent,
                   fzfOutput, stdinLog, stdinEnded, piped, timer, hist>>
    /\ UNCHANGED <<callerVars, utilVars>>

\* fzf.on('error', ...): the selector failed to start. 'close' follows.
FzfError ==
    /\ ~Resuming
    /\ fzfState = "spawnfail"
    /\ fzfState' = "exited"
    /\ fzfCode' = SpawnFailCode
    /\ outcome' = Settle(outcome, Failed("Failed to start fzf"))
    /\ UNCHANGED <<rankVars, rgState, rgCode, rgStdoutClosed, rgKilled, rgSignals,
                   fzfKillSent, fzfOutput, stdinLog, stdinEnded, piped, timer, hist>>
    /\ UNCHANGED <<callerVars, utilVars>>

\* rg 'error' with code EPIPE, once the selector has gone.
RgEpipe ==
    /\ ~Resuming
    /\ Launched
    /\ SelectorGone
    /\ rgState = "running"
    /\ "rg" \notin hist.epipe
    /\ outcome' = RgErrorResult("EPIPE", outcome)
    /\ hist' = [hist EXCEPT !.epipe = @ \cup {"rg"}]
    /\ UNCHANGED <<rankVars, procVars, stdinLog, stdinEnded, piped, timer>>
    /\ UNCHANGED <<callerVars, utilVars>>

\* rg.stdout 'error' with code EPIPE: the stream is destroyed without 'end'.
RgStdoutEpipe ==
    /\ ~Resuming
    /\ Launched
    /\ SelectorGone
    /\ rgState \in {"running", "exited"}
    /\ ~rgStdoutClosed
    /\ "rg.stdout" \notin hist.epipe
    /\ rgStdoutClosed' = TRUE
    /\ outcome' = StreamErrorResult("EPIPE", outcome)
    /\ hist' = [hist EXCEPT !.epipe = @ \cup {"rg.stdout"}]
    /\ UNCHANGED <<rankVars, rgState, rgCode, rgKilled, rgSignals, fzfState, fzfCode,
                   fzfKillSent, fzfOutput, stdinLog, stdinEnded, piped, timer>>
    /\ UNCHANGED <<callerVars, utilVars>>

\* deduplicateStream 'error' with code EPIPE: the stage is destroyed.
StageEpipe ==
    /\ ~Resuming
    /\ Launched
    /\ SelectorGone
    /\ stage # "destroyed"
    /\ "stage" \notin hist.epipe
    /\ stage' = "destroyed"
    /\ outcome' = StreamErrorResult("EPIPE", outcome)
    /\ hist' = [hist EXCEPT !.epipe = @ \cup {"stage"}]
    /\ UNCHANGED <<keyword, seen, buffer, scoreCache, currentBatch, out, lineNo, fed, input, twin,
                   procVars, stdinLog, stdinEnded, piped, timer>>
    /\ UNCHANGED <<callerVars, utilVars>>

\* The value the await gives the caller: the line, or null (no text).
Selected(o) == IF o.kind = "line" THEN o.value ELSE <<>>

\* Mutation of AfterSelection: addImportToFile without the test of selected.
AfterSelectionUntested(selected, target) == AddImport(target, selected)

\* What the caller does with the value: if (selected) addImportToFile, else
\* the report that nothing was selected.
AfterSelection(selected, target) ==
    IF selected # <<>> THEN AddImport(target, selected)
    ELSE [result |-> "reported", file |-> target]

\* searchAndImport / interactiveImport after the await: a rejection is thrown
\* on, anything else goes through the test of selected.
Continue ==
    /\ caller = "awaiting"
    /\ outcome # Pending
    /\ IF outcome.kind = "failed"
       THEN /\ caller' = "threw"
            /\ file' = file
       ELSE /\ caller' = AfterSelection(Selected(outcome), file).result
            /\ file' = AfterSelection(Selected(outcome), file).file
    /\ UNCHANGED <<rankVars, sessionVars, file0, cli, utilVars>>

SessionNext ==
    \/ RgData
    \/ RgExit
    \/ RgKilledBySignal
    \/ RgStdoutEnd
    \/ PipeWrite
    \/ PipeEnd
    \/ RgClose
    \/ FzfData
    \/ FzfExit
    \/ FzfKilledBySignal
    \/ FzfClose
    \/ GraceTimer
    \/ RgError
    \/ FzfError
    \/ RgEpipe
    \/ RgStdoutEpipe
    \/ StageEpipe
    \/ Continue

SpecSession == SessionInit /\ [][SessionNext]_vars

\* The event loop runs every handler whose event is pending (the 'error' and
\* 'close' events of the two subprocesses, the timer callback), and a
\* selector that was sent SIGTERM ends; the microtask queue is drained (the
\* caller's continuation, enabled exactly when Resuming, runs). Nothing is
\* assumed of the user, of the search subprocess or of the streams.
SessionFairness ==
    /\ WF_vars(RgError)
    /\ WF_vars(FzfError)
    /\ WF_vars(RgClose)
    /\ WF_vars(FzfKilledBySignal)
    /\ WF_vars(FzfClose)
    /\ WF_vars(GraceTimer)
    /\ []<>(~Resuming)

SpecSessionFair == SessionInit /\ [][SessionNext]_vars /\ SessionFairness

RankInit == StageInit /\ NoSession

\* A chunk of the input arrives.
Write ==
    /\ stage = "open"
    /\ fed < MaxChunks
    /\ \E chunk \in Chunks : Transform(chunk)
    /\ UNCHANGED sessionVars
    /\ UNCHANGED <<callerVars, utilVars>>

\* The input ends.
End ==
    /\ stage = "open"
    /\ Flush
    /\ UNCHANGED sessionVars
    /\ UNCHANGED <<callerVars, utilVars>>

RankNext == Write \/ End

SpecRank == RankInit /\ [][RankNext]_vars

(***************************************************************************)
(* Two streams made by two calls of createDeduplicateStream. The handlers  *)
(* of one stream run at a time: the stage variables are those of the       *)
(* stream whose handler runs, twin holds those of the other one.           *)
(***************************************************************************)

\* The number of chunks written to each of the two streams.
MaxTwinChunks == 2

TwinChunks == {ChunkA, ChunkB, ChunkBig}

\* The variables createDeduplicateStream(kw) declares, for a new stream.
StageNew(kw) ==
    [keyword |-> kw, seen |-> {}, buffer |-> <<>>, scoreCache |-> <<>>,
     currentBatch |-> <<>>, stage |-> "open", out |-> <<>>, lineNo |-> 0,
     fed |-> 0, input |-> <<>>]

\* The variables of the stream whose handlers run.
ThisStream ==
    [keyword |-> keyword, seen |-> seen, buffer |-> buffer, scoreCache |-> scoreCache,
     currentBatch |-> currentBatch, stage |-> stage, out |-> out, lineNo |-> lineNo,
     fed |-> fed, input |-> input]

\* Mutation of OwnSeen: one seen-set for all streams.
OwnSeenShared(own, others) == own \cup others

\* const seen = new Set<string>() is local to each call: a stream's handlers
\* see the set of their own call.
OwnSeen(own, others) == own

TwinInit ==
    /\ keyword \in Keywords
    /\ seen = {}
    /\ buffer = <<>>
    /\ scoreCache = <<>>
    /\ currentBatch = <<>>
    /\ stage = "open"
    /\ out = <<>>
    /\ lineNo = 0
    /\ fed = 0
    /\ input = <<>>
    /\ twin \in {StageNew(kw) : kw \in Keywords}
    /\ NoSession

\* The next event belongs to the other stream.
Switch ==
    /\ twin.stage # "none"
    /\ twin' = ThisStream
    /\ keyword' = twin.keyword
    /\ seen' = OwnSeen(twin.seen, seen)
    /\ buffer' = twin.buffer
    /\ scoreCache' = twin.scoreCache
    /\ currentBatch' = twin.currentBatch
    /\ stage' = twin.stage
    /\ out' = twin.out
    /\ lineNo' = twin.lineNo
    /\ fed' = twin.fed
    /\ input' = twin.input
    /\ UNCHANGED <<sessionVars, callerVars, utilVars>>

\* A chunk arrives at the stream whose handlers run.
TwinWrite ==
    /\ stage = "open"
    /\ fed < MaxTwinChunks
    /\ \E chunk \in TwinChunks : Transform(chunk)
    /\ UNCHANGED <<sessionVars, callerVars, utilVars>>

TwinNext == Switch \/ TwinWrite \/ End

SpecTwin == TwinInit /\ [][TwinNext]_vars

(***************************************************************************)
(* cli.ts: one invocation of the command, from program.action to the end   *)
(* of the session it may start.                                            *)
(***************************************************************************)

\* The <file> argument: a path, path:row:col, or anything parseFileArgument
\* throws on (two parts, more than three, a row or column below 1).
FileArgForms == {"file", "position", "bad"}

\* Positions (1-indexed) in FileWithFoo: on the F of Foo, and on the space
\* in front of it.
CliPositions == {<<2, 10>>, <<2, 9>>}

\* The [keyword] argument: absent, or given (not the symbol at the position).
CliKeywords == {<<>>, Str("Bar")}

\* Mutation of ModeOf: a keyword is looked at before the position.
ModeKeywordFirst(form, kw) ==
    IF kw # <<>> THEN "keyword"
    ELSE IF form = "position" THEN "position"
    ELSE "interactive"

\* if (parsed.row && parsed.col) ... else if (keyword) ... else ...
ModeOf(form, kw) ==
    IF form = "position" THEN "position"
    ELSE IF kw # <<>> THEN "keyword"
    ELSE "interactive"

\* The keyword streamingSearchAndSelect is called with: the symbol at the
\* position, the keyword argument, or none (interactiveImport).
SessionKeyword(mode, symbol, kw) ==
    IF mode = "position" THEN symbol.text
    ELSE IF mode = "keyword" THEN kw
    ELSE <<>>

\* searchAndImportAtPosition returns before searchAndImport: no symbol.
NoSymbolFound(mode, symbol) == mode = "position" /\ ~symbol.ok

CliInit ==
    /\ StageInit
    /\ keyword = <<>>
    /\ rgState = "none"
    /\ rgCode = NullCode
    /\ rgStdoutClosed = FALSE
    /\ rgKilled = FALSE
    /\ rgSignals = <<>>
    /\ fzfState = "none"
    /\ fzfCode = NullCode
    /\ fzfKillSent = FALSE
    /\ fzfOutput = <<>>
    /\ stdinLog = <<>>
    /\ stdinEnded = FALSE
    /\ piped = 0
    /\ outcome = Pending
    /\ timer = "idle"
    /\ hist = NoHist
    /\ file \in TargetFiles
    /\ file0 = file
    /\ caller = "none"
    /\ NoUtilCall
    /\ \E form \in FileArgForms, pos \in CliPositions, kw \in CliKeywords :
           cli = [state |-> "invoked", form |-> form,
                  row |-> IF form = "position" THEN pos[1] ELSE 0,
                  col |-> IF form = "position" THEN pos[2] ELSE 0,
                  keyword |-> kw, mode |-> "none", sessions |-> 0]

\* The call of streamingSearchAndSelect by searchAndImport or
\* interactiveImport, up to the await: the stream is made for the keyword,
\* the two spawn calls have returned.
StartSession(mode, kw) ==
    /\ keyword' = kw
    /\ rgState' \in {"running", "spawnfail"}
    /\ fzfState' \in {"running", "spawnfail"}
    /\ caller' = "awaiting"
    /\ cli' = [cli EXCEPT !.state = "running", !.mode = mode, !.sessions = @ + 1]

\* The mode's method: searchAndImportAtPosition without a symbol returns,
\* every other path calls streamingSearchAndSelect once.
RunMode(mode, symbol) ==
    IF NoSymbolFound(mode, symbol)
    THEN /\ cli' = [cli EXCEPT !.state = "done", !.mode = mode]
         /\ UNCHANGED <<keyword, rgState, fzfState, caller>>
    ELSE StartSession(mode, SessionKeyword(mode, symbol, cli.keyword))

\* program.action(fileArg, keyword): the argument is parsed (an error ends
\* the process with code 1), the mode is chosen and its method is called.
CliAction ==
    /\ cli.state = "invoked"
    /\ IF cli.form = "bad"
       THEN /\ cli' = [cli EXCEPT !.state = "exit1"]
            /\ UNCHANGED <<keyword, rgState, fzfState, caller>>
       ELSE RunMode(ModeOf(cli.form, cli.keyword),
                    GetSymbolAtPosition(file, cli.row, cli.col))
    /\ UNCHANGED <<seen, buffer, scoreCache, currentBatch, stage, out, lineNo, fed,
                   input, twin>>
    /\ UNCHANGED <<rgCode, rgStdoutClosed, rgKilled, rgSignals, fzfCode, fzfKillSent,
                   fzfOutput, stdinLog, stdinEnded, piped, outcome, timer, hist>>
    /\ UNCHANGED <<file, file0, utilVars>>

CliNext == CliAction \/ SessionNext

SpecCli == CliInit /\ [][CliNext]_vars

(***************************************************************************)
(* Utils.calculateRelevanceScore on its own: two candidate lines are       *)
(* scored against one keyword.                                             *)
(***************************************************************************)

\* The largest brace group of the candidates.
MaxGroupSize == 5

FooFamily == <<Str("Foo"), Str("FooA"), Str("FooB"), Str("FooC"), Str("FooD"), Str("FooE")>>

\* The symbol lists of the candidates: Foo followed by symbols that begin with
\* Foo, and lists with an unrelated symbol.
SymbolGroups ==
    {SubSeq(FooFamily, 1, m) : m \in 1..MaxGroupSize}
        \cup {<<Str("Bar")>>, <<Str("Foo"), Str("Bar")>>, <<Str("Bar"), Str("Foo")>>}

ModulePaths == {Str("lib"), Str("Foo"), Str("@lib/Foo")}

\* No keyword, a symbol or path, another symbol, a part of a symbol, and a
\* word of the import statement itself.
ScoreKeywords == {<<>>, Str("Foo"), Str("Bar"), Str("oo"), Str("from")}

RawLines == {<<>>, Str("// Foo"), Str("Bar")}

\* The candidate lines, by form: import { a, b } from 'p', import a from 'p',
\* import * as a from 'p', and text that is no import.
Candidates ==
    [form : {"named"}, symbols : SymbolGroups, path : ModulePaths]
        \cup [form : {"default"}, symbols : {<<Str("Foo")>>, <<Str("Bar")>>}, path : ModulePaths]
        \cup [form : {"namespace"}, symbols : {<<Str("Foo")>>}, path : ModulePaths]
        \cup [form : {"raw"}, symbols : {<<>>}, path : RawLines]

\* a, b, c
RECURSIVE CommaList(_)
CommaList(symbols) ==
    IF Len(symbols) = 0 THEN <<>>
    ELSE IF Len(symbols) = 1 THEN symbols[1]
    ELSE symbols[1] \o Str(", ") \o CommaList(Tail(symbols))

\* The text of a candidate line.
LineText(c) ==
    IF c.form = "named"
    THEN Str("import { ") \o CommaList(c.symbols) \o Str(" } from '") \o c.path \o Str("'")
    ELSE IF c.form = "default"
    THEN Str("import ") \o c.symbols[1] \o Str(" from '") \o c.path \o Str("'")
    ELSE IF c.form = "namespace"
    THEN Str("import * as ") \o c.symbols[1] \o Str(" from '") \o c.path \o Str("'")
    ELSE c.path

\* Everything but the Utils calls is at rest.
UtilOnly ==
    /\ StageInit
    /\ keyword = <<>>
    /\ rgState = "none"
    /\ rgCode = NullCode
    /\ rgStdoutClosed = FALSE
    /\ rgKilled = FALSE
    /\ rgSignals = <<>>
    /\ fzfState = "none"
    /\ fzfCode = NullCode
    /\ fzfKillSent = FALSE
    /\ fzfOutput = <<>>
    /\ stdinLog = <<>>
    /\ stdinEnded = FALSE
    /\ piped = 0
    /\ outcome = Pending
    /\ timer = "idle"
    /\ hist = NoHist
    /\ file = <<>>
    /\ file0 = <<>>
    /\ caller = "none"
    /\ cli = NoCli

\* The inputs of the two calls: a keyword and two candidate lines.
ScoreInit ==
    /\ UtilOnly
    /\ scoreCall \in [fn : {"asked"}, kw : ScoreKeywords, a : Candidates, b : Candidates,
                       sa : {0}, sb : {0}]
    /\ symbolCall = NoSymbolCall
    /\ placeCall = NoPlaceCall

\* calculateRelevanceScore(a, kw), then calculateRelevanceScore(b, kw)
Score ==
    /\ scoreCall.fn = "asked"
    /\ scoreCall' = [scoreCall EXCEPT
           !.fn = "score",
           !.sa = CalculateRelevanceScore(LineText(scoreCall.a), scoreCall.kw),
           !.sb = CalculateRelevanceScore(LineText(scoreCall.b), scoreCall.kw)]
    /\ UNCHANGED <<rankVars, sessionVars, callerVars, symbolCall, placeCall>>

ScoreNext == Score

SpecScore == ScoreInit /\ [][ScoreNext]_vars

(***************************************************************************)
(* Utils.getSymbolAtPosition on its own.                                   *)
(***************************************************************************)

\* The rows and columns asked for go from 0 to these.
MaxRow == 4

MaxCol == 23

\* Two lines, the second with $ and _ in a word and a word at its end.
SourceText == Str("const x = getUser(id);\n  $a_1+b2")

SymbolFiles == {SourceText, Str("ab"), NoFile}

SymbolInit ==
    /\ UtilOnly
    /\ scoreCall = NoScoreCall
    /\ symbolCall \in [fn : {"asked"}, file : SymbolFiles, row : 0..MaxRow, col : 0..MaxCol,
                        result : {NoMatch}]
    /\ placeCall = NoPlaceCall

\* getSymbolAtPosition(filePath, row, col)
GetSymbol ==
    /\ symbolCall.fn = "asked"
    /\ symbolCall' = [symbolCall EXCEPT
           !.fn = "symbol",
           !.result = GetSymbolAtPosition(symbolCall.file, symbolCall.row, symbolCall.col)]
    /\ UNCHANGED <<rankVars, sessionVars, callerVars, scoreCall, placeCall>>

SymbolNext == GetSymbol

SpecSymbol == SymbolInit /\ [][SymbolNext]_vars

(***************************************************************************)
(* addImportToFile on its own: the same line is added to a file, once or   *)
(* several times in succession.                                            *)
(***************************************************************************)

\* The number of lines of the files.
MaxFileLines == 4

\* The number of times the line is added.
MaxPlacements == 2

\* A blank line, the three kinds of comment line, a line of text or code, an
\* import statement, and the same import statement indented.
LineAlphabet ==
    {<<>>, Str("// c"), Str("/*"), Str(" * c"), Str(" */"), Str("text"),
     Str("import a from 'a'"), Str("  import a from 'a' ")}

\* The line to add: a new one, and one the files may hold already.
ImportLines == {Str("import b from 'b'"), Str("import a from 'a'")}

FileLines == UNION {[1..n -> LineAlphabet] : n \in 1..MaxFileLines}

PlaceInit ==
    /\ UtilOnly
    /\ scoreCall = NoScoreCall
    /\ symbolCall = NoSymbolCall
    /\ \E lines \in FileLines, line \in ImportLines :
           placeCall = [fn |-> "asked", file0 |-> Join(lines, "\n"), line |-> line,
                        file |-> Join(lines, "\n"), results |-> <<>>]

\* FzfImport.addImportToFile(filePath, importLine)
Place ==
    /\ placeCall.fn = "asked"
    /\ Len(placeCall.results) < MaxPlacements
    /\ placeCall' = [placeCall EXCEPT
           !.file = AddImport(placeCall.file, placeCall.line).file,
           !.results = Append(@, AddImport(placeCall.file, placeCall.line).result)]
    /\ UNCHANGED <<rankVars, sessionVars, callerVars, scoreCall, symbolCall>>

PlaceNext == Place

SpecPlace == PlaceInit /\ [][PlaceNext]_vars

(***************************************************************************)
(* What a consumer reads from the pushed chunks.                           *)
(***************************************************************************)

\* Every line pushed so far, in the order pushed.
EmittedLines == Flatten([i \in 1..Len(out) |-> TextLines(out[i].text)])

\* The arrival numbers of the lines pushed so far, in the order pushed.
EmittedIdx == Flatten([i \in 1..Len(out) |-> out[i].idx])

\* The module path of a line begins with ./ or ../
HasRelativePath(line) ==
    \/ StartsWith(ImportName(line), Str("./"))
    \/ StartsWith(ImportName(line), Str("../"))

(***************************************************************************)
(* Claims about the Rank Stage (checked under SpecRank).                   *)
(***************************************************************************)

\* C1: the stage never pushes two lines with the same non-empty trimmed text,
\* whether transform or the end-of-input flush pushed them.
C1_NoDuplicateEmitted ==
    LET trimmed == [i \in 1..Len(EmittedLines) |-> Trim(EmittedLines[i])]
    IN  \A i, j \in 1..Len(trimmed) :
            (i # j /\ trimmed[i] # <<>>) => trimmed[i] # trimmed[j]

\* C1 witness: a line arrived a second time (once with other white space
\* around it), lines were pushed by transform and by flush.
C1_Witness ==
    /\ stage = "ended"
    /\ \E i, j \in 1..Len(out) : out[i].by = "transform" /\ out[j].by = "flush"
    /\ lineNo > Len(EmittedLines)
    /\ Trim(Str("import { Foo } from 'lib'")) \in seen
    /\ fed = MaxChunks

\* C2 as claimed: no pushed line has a module path that begins with ./ or ../,
\* whichever quote surrounds the path.
C2_NoRelativeEmitted ==
    LET lines == EmittedLines
    IN  \A i \in 1..Len(lines) : ~HasRelativePath(Trim(lines[i]))

\* C3: in keyword mode the lines of every pushed chunk stand in non-increasing
\* order of calculateRelevanceScore(trimmed line, keyword), lines of equal score
\* in non-decreasing order of raw length, and every line of an earlier chunk
\* arrived before every line of a later chunk.
C3_BatchesSorted ==
    ShouldSort(keyword) =>
        /\ \A c \in 1..Len(out) :
               LET L == TextLines(out[c].text)
                   sc == [i \in 1..Len(L) |-> CalculateRelevanceScore(Trim(L[i]), keyword)]
               IN  /\ Len(L) = Len(out[c].idx)
                   /\ \A i, j \in 1..Len(L) :
                          i < j => /\ sc[i] >= sc[j]
                                   /\ sc[i] = sc[j] => Len(L[i]) <= Len(L[j])
        /\ \A c, d \in 1..Len(out) :
               c < d =>
                   \A i \in 1..Len(out[c].idx), j \in 1..Len(out[d].idx) :
                       out[c].idx[i] < out[d].idx[j]

\* C3 witness: two batches were pushed, and in one of them the sort moved a
\* later arrival in front of an earlier one, by score and by length.
C3_Witness ==
    /\ ShouldSort(keyword)
    /\ Len(out) >= 2
    /\ \E c \in 1..Len(out) :
           LET L == TextLines(out[c].text)
               sc == [i \in 1..Len(L) |-> CalculateRelevanceScore(Trim(L[i]), keyword)]
           IN  /\ \E i, j \in 1..Len(L) :
                      i < j /\ out[c].idx[i] > out[c].idx[j] /\ sc[i] > sc[j]
               /\ \E i, j \in 1..Len(L) :
                      /\ i < j
                      /\ out[c].idx[i] > out[c].idx[j]
                      /\ sc[i] = sc[j]
                      /\ Len(L[i]) < Len(L[j])

\* C4: in no-keyword mode the pushed lines stand in their arrival order,
\* across chunks and with the end-of-input residual last.
C4_ArrivalOrder ==
    ~ShouldSort(keyword) =>
        LET idx == EmittedIdx
        IN  \A i, j \in 1..Len(idx) : i < j => idx[i] < idx[j]

\* C4 witness: no-keyword mode, several chunks pushed, lines discarded in
\* between, and the residual pushed by flush.
C4_Witness ==
    /\ ~ShouldSort(keyword)
    /\ Len(out) >= 3
    /\ out[Len(out)].by = "flush"
    /\ lineNo > Len(EmittedIdx)
    /\ Len(EmittedLines) = Len(EmittedIdx)

(***************************************************************************)
(* Claims about the session (checked under SpecSession, C9 under           *)
(* SpecSessionFair).                                                       *)
(***************************************************************************)

Signalled(sig) == \E i \in 1..Len(rgSignals) : rgSignals[i] = sig

\* C5 as claimed: once the search subprocess has closed with code 1 (and the
\* selector started and did not end with its own error code 2), fzf.stdin is
\* ended, nothing was ever written to it, and the session is not Failed: it
\* settles, if at all, to null.
C5_NoMatchesEmptyResult ==
    (rgState = "closed" /\ rgCode = 1 /\ fzfCode \notin {SpawnFailCode, 2}) =>
        /\ stdinEnded
        /\ stdinLog = <<>>
        /\ outcome \in {Pending, ResolvedNull}

\* C6: when the 'close' handler of the search subprocess finds the session
\* unsettled and the code is neither 0 nor 1, the session is Failed from then
\* on (never resolved), and the selector is not left running without a signal.
C6_SearchFailureFails ==
    (rgState = "closed" /\ hist.rgClose = "pending" /\ rgCode \notin {0, 1}) =>
        /\ outcome.kind = "failed"
        /\ hist.fzfKillCalled
        /\ fzfState = "running" => fzfKillSent

\* C6 witness: the search subprocess closed with code 2 on an unsettled
\* session, the selector was ended by the signal and its 'close' handler ran.
C6_Witness ==
    /\ rgState = "closed"
    /\ hist.rgClose = "pending"
    /\ rgCode = 2
    /\ fzfState = "closed"
    /\ fzfCode = NullCode
    /\ outcome.kind = "failed"

\* C7: when the 'close' handler of the selector finds the session unsettled
\* and the code is 130, the session is resolved to null, whatever the search
\* subprocess was doing.
C7_CancelResolvesNull ==
    (fzfState = "closed" /\ hist.fzfClose = "pending" /\ fzfCode = 130) =>
        outcome = ResolvedNull

\* C7 witness: cancelled while the search subprocess was still running.
C7_Witness ==
    /\ fzfState = "closed"
    /\ hist.fzfClose = "pending"
    /\ fzfCode = 130
    /\ hist.fzfCloseRg = "running"
    /\ outcome = ResolvedNull

\* C7, further cases: cancelled after the search subprocess closed with 0.
C7_WitnessSearchDone ==
    /\ fzfState = "closed"
    /\ hist.fzfClose = "pending"
    /\ fzfCode = 130
    /\ hist.fzfCloseRg = "closed"
    /\ rgCode = 0
    /\ outcome = ResolvedNull

\* C7, further cases: cancelled after the search subprocess closed with 1.
C7_WitnessNoMatches ==
    /\ fzfState = "closed"
    /\ hist.fzfClose = "pending"
    /\ fzfCode = 130
    /\ hist.fzfCloseRg = "closed"
    /\ rgCode = 1
    /\ outcome = ResolvedNull

\* C8: when the 'close' handler of the selector finds the session unsettled:
\* code 0 resolves to the trimmed captured output, or to null when that is
\* empty; a code other than 0 and 130 fails the session.
C8_SelectorExit ==
    (fzfState = "closed" /\ hist.fzfClose = "pending") =>
        /\ fzfCode = 0 =>
               outcome = IF Trim(fzfOutput) = <<>>
                         THEN ResolvedNull
                         ELSE Resolved(Trim(fzfOutput))
        /\ fzfCode \notin {0, 130} => outcome.kind = "failed"

\* C8 witness: code 0 with a captured line that trimming shortens.
C8_Witness ==
    /\ fzfState = "closed"
    /\ hist.fzfClose = "pending"
    /\ fzfCode = 0
    /\ outcome.kind = "line"
    /\ outcome.value # fzfOutput
    /\ outcome.value = Trim(fzfOutput)

\* C8, further cases: code 0 with a captured blank line resolves to null.
C8_WitnessBlank ==
    /\ fzfState = "closed"
    /\ hist.fzfClose = "pending"
    /\ fzfCode = 0
    /\ fzfOutput # <<>>
    /\ outcome = ResolvedNull

\* C8, further cases: code 1 fails the session.
C8_WitnessFailed ==
    /\ fzfState = "closed"
    /\ hist.fzfClose = "pending"
    /\ fzfCode = 1
    /\ outcome.kind = "failed"

\* The teardown block has run: SIGTERM was requested for the search
\* subprocess and the Rank Stage was destroyed.
TeardownRan ==
    /\ hist.teardowns = 1
    /\ stage = "destroyed"
    /\ Len(hist.killCalls) >= 1
    /\ hist.killCalls[1].sig = "SIGTERM"

C10_ForceKillAfterGrace ==
    (timer = "fired" /\ hist.timerSaw = "running" /\ Signalled("SIGTERM")) =>
        Signalled("SIGKILL")

\* C11 as claimed: when the teardown found the search subprocess already
\* exited by itself, no signal reaches it and the grace timer is never armed.
C11_TeardownOnlyIfRunning ==
    (hist.teardowns > 0 /\ hist.fzfCloseRg \in {"exited", "closed"}
                        /\ rgCode \in RgExitCodes) =>
        /\ rgSignals = <<>>
        /\ timer = "idle"

\* C12: a handler that is given an EPIPE error leaves the outcome as it was,
\* and a session that is unsettled when the selector closes is settled by the
\* selector's exit code and output, whatever EPIPE errors were reported.
C12_BrokenPipeSwallowed ==
    /\ [][(hist'.epipe # hist.epipe) => (outcome' = outcome)]_vars
    /\ []((fzfState = "closed" /\ hist.fzfClose = "pending") =>
              outcome = FzfCloseResult(fzfCode, fzfOutput))

\* C12 witness: EPIPE was reported on all three emitters while the session was
\* unsettled, and the selector's exit then settled it with the chosen line.
C12_Witness ==
    /\ hist.epipe = {"rg", "rg.stdout", "stage"}
    /\ hist.fzfClose = "pending"
    /\ outcome.kind = "line"

\* C13: the target file changes only in the step in which the caller resumes
\* with a selected line, and a session that failed, was cancelled or resolved
\* to null leaves the file with the content it had at the start.
C13_FileWrittenOnlyAfterSelection ==
    /\ [][(file' # file) => (outcome.kind = "line" /\ outcome' = outcome)]_vars
    /\ [](outcome.kind \in {"failed", "null"} => file = file0)

\* C13 witness: the session resolved to a line and the file was written;
\* another session failed and its caller has resumed.
C13_Witness ==
    /\ outcome.kind = "line"
    /\ caller = "added"
    /\ file # file0

C13_WitnessFailed ==
    /\ outcome.kind = "failed"
    /\ caller = "threw"
    /\ file = file0

Over(state) == state \in {"exited", "closed"}

\* C14: once the 'error' handler of a subprocess that failed to start has run,
\* the session is Failed (so it never resolves to a line), and a subprocess
\* that is over is never started again.
C14_LaunchFailureFails ==
    /\ []((rgCode = SpawnFailCode \/ fzfCode = SpawnFailCode) => outcome.kind = "failed")
    /\ [][/\ Over(rgState) => Over(rgState')
          /\ Over(fzfState) => Over(fzfState')]_vars

\* C14 witness: the selector failed to start, the session is Failed for that
\* reason and both subprocesses are closed.
C14_Witness ==
    /\ fzfCode = SpawnFailCode
    /\ outcome = Failed("Failed to start fzf")
    /\ rgState = "closed"
    /\ fzfState = "closed"

(***************************************************************************)
(* Claims about the scorer (checked under SpecScore).                      *)
(***************************************************************************)

Symbols(c) == {c.symbols[i] : i \in 1..Len(c.symbols)}

C16_SingleOutranksGroup ==
    (/\ scoreCall.fn = "score"
     /\ scoreCall.kw # <<>>
     /\ scoreCall.a.form = "named"
     /\ scoreCall.a.symbols = <<scoreCall.kw>>
     /\ scoreCall.b.form = "named"
     /\ Len(scoreCall.b.symbols) >= 2
     /\ scoreCall.kw \in Symbols(scoreCall.b)
     /\ scoreCall.b.path = scoreCall.a.path) =>
        scoreCall.sa > scoreCall.sb

\* C17 as claimed: a line whose module path is K and whose symbols do not
\* contain K scores strictly higher than a line that imports a symbol equal
\* to K from a module path that does not contain K.
C17_PathOutranksSymbol ==
    (/\ scoreCall.fn = "score"
     /\ scoreCall.kw # <<>>
     /\ scoreCall.a.form # "raw"
     /\ scoreCall.a.path = scoreCall.kw
     /\ \A sym \in Symbols(scoreCall.a) : ~Includes(sym, scoreCall.kw)
     /\ scoreCall.b.form # "raw"
     /\ scoreCall.kw \in Symbols(scoreCall.b)
     /\ ~Includes(scoreCall.b.path, scoreCall.kw)) =>
        scoreCall.sa > scoreCall.sb

(***************************************************************************)
(* Claims about getSymbolAtPosition (checked under SpecSymbol).            *)
(***************************************************************************)

\* The identifier characters [A-Za-z0-9_$].
IdentifierChars ==
    LET a == Str("ABCDEFGHIJKLMNOPQRSTUVWXYZabcdefghijklmnopqrstuvwxyz0123456789_$")
    IN  {a[i] : i \in 1..Len(a)}

\* The position asked for is on a character of a line of a readable file.
OnCharacter(c) ==
    /\ c.file # NoFile
    /\ c.row \in 1..Len(Split(c.file, "\n"))
    /\ c.col \in 1..Len(Split(c.file, "\n")[c.row])

CharacterAt(c) == Split(c.file, "\n")[c.row][c.col]

\* text is the maximal run of identifier characters of line around col.
IsMaximalRun(text, line, col) ==
    \E from \in 1..col, to \in col..Len(line) :
        /\ text = SubSeq(line, from, to)
        /\ \A i \in from..to : line[i] \in IdentifierChars
        /\ from = 1 \/ line[from - 1] \notin IdentifierChars
        /\ to = Len(line) \/ line[to + 1] \notin IdentifierChars

\* C18: asked for a position that holds an identifier character, the result is
\* the maximal run of identifier characters of that line around the position.
C18_MaximalIdentifier ==
    (/\ symbolCall.fn = "symbol"
     /\ OnCharacter(symbolCall)
     /\ CharacterAt(symbolCall) \in IdentifierChars) =>
        /\ symbolCall.result.ok
        /\ IsMaximalRun(symbolCall.result.text,
                        Split(symbolCall.file, "\n")[symbolCall.row], symbolCall.col)

\* C18 witness: asked for the first character of getUser, the result is
\* getUser.
C18_Witness ==
    /\ symbolCall.fn = "symbol"
    /\ symbolCall.file = SourceText
    /\ symbolCall.row = 1
    /\ symbolCall.col = 11
    /\ symbolCall.result = Matched(Str("getUser"))

\* C19: the result is null when the file cannot be read, when the row or the
\* column is out of range, and when the character there is no identifier
\* character.
C19_FailsSoft ==
    (/\ symbolCall.fn = "symbol"
     /\ \/ ~OnCharacter(symbolCall)
        \/ CharacterAt(symbolCall) \notin IdentifierChars) =>
        symbolCall.result = NoMatch

\* C19 witness: asked for the space after const, the result is null; so it
\* is for an unreadable file.
C19_Witness ==
    /\ symbolCall.fn = "symbol"
    /\ symbolCall.file = SourceText
    /\ symbolCall.row = 1
    /\ symbolCall.col = 6
    /\ symbolCall.result = NoMatch

C19_WitnessUnreadable ==
    /\ symbolCall.fn = "symbol"
    /\ symbolCall.file = NoFile
    /\ symbolCall.result = NoMatch

(***************************************************************************)
(* Claims about addImportToFile (checked under SpecPlace).                 *)
(***************************************************************************)

\* A blank line or a comment line: line comment, block-comment open, or
\* block-comment continuation or close.
BlankOrCommentLine(line) ==
    LET t == Trim(line)
    IN  \/ t = <<>>
        \/ t[1] = "*"
        \/ Len(t) >= 2 /\ t[1] = "/" /\ t[2] \in {"/", "*"}

ImportStatementLine(line) ==
    LET t == Trim(line) IN Len(t) >= 7 /\ SubSeq(t, 1, 7) = Str("import ")

\* The lines start with a run of blank and comment lines followed, at index
\* k (from 1), by an import statement.
LeadingRunThenImport(lines, k) ==
    /\ k \in 1..Len(lines)
    /\ \A j \in 1..(k - 1) : BlankOrCommentLine(lines[j])
    /\ ImportStatementLine(lines[k])

\* C20: when a file starts with blank and comment lines followed by an import
\* statement, the line added is at that import statement's index afterwards,
\* and the import statement follows it.
C20_InsertBeforeFirstImport ==
    (/\ placeCall.fn = "asked"
     /\ Len(placeCall.results) = 1
     /\ placeCall.results[1] = "added") =>
        \A k \in 1..Len(Split(placeCall.file0, "\n")) :
            LeadingRunThenImport(Split(placeCall.file0, "\n"), k) =>
                /\ Split(placeCall.file, "\n")[k] = placeCall.line
                /\ Split(placeCall.file, "\n")[k + 1] = Split(placeCall.file0, "\n")[k]

\* C20 witness: a block comment of three lines followed by an import; the new
\* line has been placed between them.
C20_Witness ==
    /\ placeCall.file0 = Str("/*\n * c\n */\nimport a from 'a'")
    /\ placeCall.results = <<"added">>
    /\ placeCall.file = Str("/*\n * c\n */\nimport b from 'b'\nimport a from 'a'")

\* The first import statement of the lines is at index k (from 1).
FirstImportAt(lines, k) ==
    /\ k \in 1..Len(lines)
    /\ ImportStatementLine(lines[k])
    /\ \A j \in 1..(k - 1) : ~ImportStatementLine(lines[j])

\* C21 as claimed: when a file holds an import statement, the line added is
\* at the index of the file's first import statement afterwards, and that
\* import statement follows it, whatever comes before.
C21_TopOfImportBlock ==
    (/\ placeCall.fn = "asked"
     /\ Len(placeCall.results) = 1
     /\ placeCall.results[1] = "added") =>
        \A k \in 1..Len(Split(placeCall.file0, "\n")) :
            FirstImportAt(Split(placeCall.file0, "\n"), k) =>
                /\ Split(placeCall.file, "\n")[k] = placeCall.line
                /\ Split(placeCall.file, "\n")[k + 1] = Split(placeCall.file0, "\n")[k]

\* lines without the line at index k (from 1).
Without(lines, k) == SubSeq(lines, 1, k - 1) \o SubSeq(lines, k + 1, Len(lines))

\* C22: a file the line was added to has one line more, and taking the added
\* line out again gives the lines it had, unchanged and in their order.
C22_OnlyInsertsOneLine ==
    (/\ placeCall.fn = "asked"
     /\ Len(placeCall.results) = 1
     /\ placeCall.results[1] = "added") =>
        /\ Len(Split(placeCall.file, "\n")) = Len(Split(placeCall.file0, "\n")) + 1
        /\ \E k \in 1..Len(Split(placeCall.file, "\n")) :
               /\ Split(placeCall.file, "\n")[k] = placeCall.line
               /\ Without(Split(placeCall.file, "\n"), k) = Split(placeCall.file0, "\n")

\* C22 witness: the line was added between a comment and a line of text.
C22_Witness ==
    /\ placeCall.file0 = Str("// c\ntext")
    /\ placeCall.results = <<"added">>
    /\ placeCall.file = Str("// c\nimport b from 'b'\ntext")

\* Some line of the file has the same trimmed text as line.
HoldsTrimmed(content, line) ==
    \E i \in 1..Len(Split(content, "\n")) : Trim(Split(content, "\n")[i]) = Trim(line)

\* C23: adding a line whose trimmed text some line of the file has ends as
\* skipped (a notice, no exception) and leaves the content as it was.
C23_DuplicateRejected ==
    (/\ placeCall.fn = "asked"
     /\ Len(placeCall.results) >= 1
     /\ HoldsTrimmed(placeCall.file0, placeCall.line)) =>
        /\ placeCall.results[1] = "skipped"
        /\ placeCall.file = placeCall.file0

\* C23 witness: the file holds the import indented and followed by a space;
\* adding the import was skipped.
C23_Witness ==
    /\ placeCall.file0 = Str("// c\n  import a from 'a' ")
    /\ placeCall.line = Str("import a from 'a'")
    /\ placeCall.results = <<"skipped">>
    /\ placeCall.file = placeCall.file0

\* C24: once the line has been added (or found) a first time, adding it again
\* is skipped and leaves the file as the first time left it.
C24_AddingTwiceIsAddingOnce ==
    [][(/\ placeCall.fn = "asked"
        /\ Len(placeCall.results) >= 1
        /\ placeCall' # placeCall) =>
           /\ placeCall'.file = placeCall.file
           /\ placeCall'.results[Len(placeCall'.results)] = "skipped"]_vars

\* C24 witness: the line was added the first time and skipped the second.
C24_Witness ==
    /\ placeCall.results = <<"added", "skipped">>
    /\ placeCall.file # placeCall.file0
    /\ placeCall.line = Str("import b from 'b'")

(***************************************************************************)
(* Further claims about the Rank Stage (checked under SpecRank).           *)
(***************************************************************************)

\* C25 as claimed: every chunk pushed, by transform or by flush, is not empty
\* and ends with a line break.
C25_ChunksEndWithLineBreak ==
    \A i \in 1..Len(out) :
        /\ out[i].text # <<>>
        /\ out[i].text[Len(out[i].text)] = "\n"

\* The complete lines that have arrived: the text written so far, cut at the
\* line breaks, without the unfinished last piece.
ArrivedLines ==
    LET pieces == Split(Flatten(input), "\n") IN SubSeq(pieces, 1, Len(pieces) - 1)

\* C26 as claimed: in keyword mode, once flush has run, every complete line
\* that arrived non-empty and not a relative import has been pushed (its
\* trimmed text stands in a pushed chunk), whatever the size of the chunks.
C26_NoSurvivorLost ==
    (stage = "ended" /\ ShouldSort(keyword)) =>
        LET arrived == ArrivedLines
            emitted == {Trim(EmittedLines[i]) : i \in 1..Len(EmittedLines)}
        IN  \A i \in 1..Len(arrived) :
                (Trim(arrived[i]) # <<>> /\ ~IsRelativeImport(Trim(arrived[i]))) =>
                    Trim(arrived[i]) \in emitted

\* What the stage pushes, in no-keyword mode, for a text that arrives as one
\* chunk and then ends: the unique lines of transform, then the residual line
\* of flush.
WholeOutput(text) ==
    LET pieces == Split(text, "\n")
        r == TransformLoop(SubSeq(pieces, 1, Len(pieces) - 1), 1, <<>>,
                 [seen |-> {}, cache |-> <<>>, batch |-> <<>>,
                  uniq |-> <<>>, base |-> 0, returned |-> FALSE])
        rest == CarryOver(pieces)
    IN  (IF Len(r.uniq) > 0 THEN JoinLines(r.uniq) ELSE <<>>)
        \o (IF /\ Trim(rest) # <<>>
               /\ ~IsRelativeImport(Trim(rest))
               /\ NotSeen(r.seen, Trim(rest))
            THEN rest ELSE <<>>)

\* Everything pushed so far, as the consumer reads it.
EmittedText == Flatten([i \in 1..Len(out) |-> out[i].text])

\* C27: in no-keyword mode, once flush has run, the concatenation of the pushed
\* chunks is what the stage pushes for the same text written as one chunk:
\* any two ways of cutting a text into chunks give the same output, and a line
\* cut by a chunk boundary is processed once, as one line.
C27_ChunkBoundariesIrrelevant ==
    (stage = "ended" /\ ~ShouldSort(keyword)) =>
        EmittedText = WholeOutput(Flatten(input))

\* C27 witness: a line was cut by a chunk boundary (the first chunk ended
\* inside "import Foo from 'Foo'"), more chunks followed, and the line was
\* pushed whole, once.
C27_Witness ==
    /\ stage = "ended"
    /\ ~ShouldSort(keyword)
    /\ Len(input) = MaxChunks
    /\ input[1] = ChunkA
    /\ input[2] = ChunkB
    /\ Cardinality({i \in 1..Len(EmittedLines) :
                        EmittedLines[i] = Str("import Foo from 'Foo'")}) = 1
    /\ \A i \in 1..Len(EmittedLines) : EmittedLines[i] # Str("import Foo fr")

\* flush runs: the step that ends the input.
FlushStep == stage = "open" /\ stage' = "ended"

\* The residual line passes the tests of a complete line.
ResidualSurvives == ~IsRelativeImport(Trim(buffer)) /\ Trim(buffer) \notin seen

\* flush pushed a chunk that holds the residual line, as it stood in the buffer.
ResidualEmitted ==
    /\ Len(out') = Len(out) + 1
    /\ \E i \in 1..Len(out'[Len(out')].idx) :
           /\ out'[Len(out')].idx[i] = lineNo + 1
           /\ TextLines(out'[Len(out')].text)[i] = buffer

\* What flush owes the residual line and the batch.
ResidualRules ==
    /\ ResidualEmitted <=> ResidualSurvives
    /\ ShouldSort(keyword) =>
           /\ currentBatch' = <<>>
           /\ ResidualSurvives =>
                  /\ scoreCache'[Trim(buffer)] = CalculateRelevanceScore(Trim(buffer), keyword)
                  /\ {out'[Len(out')].idx[i] : i \in 1..Len(out'[Len(out')].idx)}
                         = {currentBatch[i].idx : i \in 1..Len(currentBatch)} \cup {lineNo + 1}
           /\ (~ResidualSurvives /\ currentBatch # <<>>) =>
                  /\ Len(out') = Len(out) + 1
                  /\ {out'[Len(out')].idx[i] : i \in 1..Len(out'[Len(out')].idx)}
                         = {currentBatch[i].idx : i \in 1..Len(currentBatch)}

C28_WitnessSeen ==
    /\ stage = "ended"
    /\ Trim(buffer) # <<>>
    /\ ~IsRelativeImport(Trim(buffer))
    /\ Trim(buffer) \in seen
    /\ \A i \in 1..Len(EmittedIdx) : EmittedIdx[i] # lineNo + 1

\* C28 witness: the residual line was a relative import, flush did not push it.
C28_WitnessRelative ==
    /\ stage = "ended"
    /\ IsRelativeImport(Trim(buffer))
    /\ \A i \in 1..Len(EmittedIdx) : EmittedIdx[i] # lineNo + 1

\* C28 witness: no-keyword mode, flush pushed the residual line.
C28_WitnessUnsorted ==
    /\ stage = "ended"
    /\ ~ShouldSort(keyword)
    /\ Trim(buffer) # <<>>
    /\ out # <<>>
    /\ out[Len(out)].by = "flush"
    /\ out[Len(out)].text = buffer

\* C29: a complete line whose trimmed text is empty is pushed as it arrived,
\* every such line, when the keyword is empty; with a keyword no pushed line
\* has an empty trimmed text.
C29_BlankLines ==
    LET arrived == ArrivedLines
        lines == EmittedLines
        idx == EmittedIdx
    IN  /\ keyword = <<>> =>
               \A k \in 1..Len(arrived) :
                   Trim(arrived[k]) = <<>> =>
                       \E i \in 1..Len(idx) : idx[i] = k /\ lines[i] = arrived[k]
        /\ keyword # <<>> =>
               \A i \in 1..Len(lines) : Trim(lines[i]) # <<>>

\* C29 witness: no keyword, an empty line and later a line of white space
\* arrived (the same trimmed text twice) and both were pushed.
C29_Witness ==
    /\ keyword = <<>>
    /\ \E j, k \in 1..Len(ArrivedLines) :
           /\ j < k
           /\ ArrivedLines[j] = <<>>
           /\ ArrivedLines[k] = Str("  ")
           /\ {j, k} \subseteq {EmittedIdx[i] : i \in 1..Len(EmittedIdx)}

\* C29 witness: with a keyword, blank lines arrived and chunks were pushed.
C29_WitnessKeyword ==
    /\ keyword # <<>>
    /\ out # <<>>
    /\ \E j, k \in 1..Len(ArrivedLines) :
           ArrivedLines[j] = <<>> /\ ArrivedLines[k] = Str("  ")

\* C30: the batch never holds more than 20 scored candidates, no chunk pushed
\* in keyword mode holds more than 20 lines, and whenever a batch is pushed
\* the batch is empty afterwards.
C30_BatchBounded ==
    /\ [](/\ Len(currentBatch) <= 20
          /\ ShouldSort(keyword) =>
                 \A c \in 1..Len(out) :
                     /\ Len(out[c].idx) <= 20
                     /\ Len(TextLines(out[c].text)) = Len(out[c].idx))
    /\ [][(ShouldSort(keyword) /\ Len(out') > Len(out)) => currentBatch' = <<>>]_vars

\* C30 witness: transform pushed a batch of exactly 20 lines, more lines came
\* into the emptied batch, and flush pushed them.
C30_Witness ==
    /\ ShouldSort(keyword)
    /\ stage = "ended"
    /\ currentBatch = <<>>
    /\ \E c, d \in 1..Len(out) :
           /\ c < d
           /\ out[c].by = "transform"
           /\ Len(out[c].idx) = BATCH_SIZE
           /\ out[d].by = "flush"
           /\ Len(out[d].idx) >= 2

(***************************************************************************)
(* Further claims about the session (checked under SpecSession).           *)
(***************************************************************************)

\* C31 as claimed: whenever fzf.stdin is ended while the pipe from the Rank
\* Stage still stands, the stage has run flush and every chunk it pushed has
\* been written to fzf.stdin. (Stated for the sessions in which the pipe has
\* already written a chunk: a later chunk waits in the stage when fzf.stdin
\* reported a full buffer.)
C31_InputClosedAfterLastChunk ==
    [][(~stdinEnded /\ stdinEnded' /\ stage # "destroyed" /\ piped >= 1) =>
           (stage = "ended" /\ piped = Len(out))]_vars

\* C32: once the promise is settled no step changes the outcome, whichever
\* handler of either subprocess runs afterwards.
C32_SettlesOnce ==
    [][outcome # Pending => outcome' = outcome]_vars

\* C32 witness: the session had resolved to a line when rg 'close' ran with a
\* code for which it calls reject.
C32_Witness ==
    /\ outcome.kind = "line"
    /\ rgState = "closed"
    /\ hist.rgClose = "line"
    /\ RgCloseFails(rgCode)

\* C32 witness: the session had failed (rg 'close') when fzf 'close' ran and
\* called reject with another error.
C32_WitnessFailedFirst ==
    /\ outcome = Failed("ripgrep failed")
    /\ fzfState = "closed"
    /\ hist.fzfClose = "failed"

\* C33: when fzf 'close' ran with code 0 and a selection while the search
\* subprocess was still running, the outcome is that selection, then and in
\* every later state, whatever code the search subprocess ends with.
C33_SelectionSurvivesTeardown ==
    (/\ fzfState = "closed"
     /\ fzfCode = 0
     /\ Trim(fzfOutput) # <<>>
     /\ hist.fzfCloseRg = "running") =>
        outcome = Resolved(Trim(fzfOutput))

\* C33 witness: the teardown's SIGTERM ended the search subprocess (null exit
\* code), its 'close' handler called reject, the outcome is the selection.
C33_Witness ==
    /\ fzfState = "closed"
    /\ fzfCode = 0
    /\ hist.fzfCloseRg = "running"
    /\ rgState = "closed"
    /\ rgCode = NullCode
    /\ Signalled("SIGTERM")
    /\ hist.rgClose = "line"
    /\ outcome = Resolved(Trim(fzfOutput))

(***************************************************************************)
(* Two streams (checked under SpecTwin).                                   *)
(***************************************************************************)

\* transform(chunk) of a stream that is the only one, on the record of its
\* variables.
AloneTransform(s, chunk) ==
    LET pieces == Split(s.buffer \o chunk, "\n")
        r == TransformLoop(SubSeq(pieces, 1, Len(pieces) - 1), 1, s.keyword,
                 [seen |-> s.seen, cache |-> s.scoreCache, batch |-> s.currentBatch,
                  uniq |-> <<>>, base |-> s.lineNo, returned |-> FALSE])
    IN  [s EXCEPT
            !.buffer = CarryOver(pieces),
            !.seen = r.seen,
            !.scoreCache = r.cache,
            !.lineNo = @ + Len(pieces) - 1,
            !.fed = @ + 1,
            !.input = Append(@, chunk),
            !.currentBatch = IF r.returned THEN <<>> ELSE r.batch,
            !.out = IF r.returned
                    THEN Append(@, ProcessBatch(r.batch, "transform"))
                    ELSE IF ~ShouldSort(s.keyword) /\ Len(r.uniq) > 0
                    THEN Append(@, Pushed(JoinLines(r.uniq), r.uniq, "transform"))
                    ELSE @]

\* flush of a stream that is the only one.
AloneFlush(s) ==
    LET t == Trim(s.buffer)
        accepted == t # <<>> /\ ~IsRelativeImport(t) /\ NotSeen(s.seen, t)
        last == [line |-> s.buffer,
                 score |-> IF ShouldSort(s.keyword)
                           THEN GetScore(s.scoreCache, t, s.keyword) ELSE 0,
                 idx |-> s.lineNo + 1]
        batch == IF accepted /\ ShouldSort(s.keyword)
                 THEN Append(s.currentBatch, last) ELSE s.currentBatch
    IN  [s EXCEPT
            !.stage = "ended",
            !.seen = IF accepted THEN @ \cup {t} ELSE @,
            !.scoreCache = IF accepted /\ ShouldSort(s.keyword)
                           THEN CachePut(@, t, last.score) ELSE @,
            !.currentBatch = IF ShouldSort(s.keyword) THEN <<>> ELSE @,
            !.out = IF accepted /\ ~ShouldSort(s.keyword)
                    THEN Append(@, Pushed(s.buffer, <<last>>, "flush"))
                    ELSE IF ShouldSort(s.keyword) /\ Len(batch) > 0
                    THEN Append(@, ProcessBatch(batch, "flush"))
                    ELSE @]

\* The stream after the chunks from the k-th on, and the end of the input if
\* it ended.
RECURSIVE AloneRun(_, _, _, _)
AloneRun(s, chunks, k, ended) ==
    IF k > Len(chunks)
    THEN IF ended THEN AloneFlush(s) ELSE s
    ELSE AloneRun(AloneTransform(s, chunks[k]), chunks, k + 1, ended)

\* What a stream is, had it been given its chunks with no other stream around.
Alone(s) == AloneRun(StageNew(s.keyword), s.input, 1, s.stage = "ended")

\* C34: however the chunks written to two streams interleave, each stream
\* pushed (and holds) what it would had it run alone with the same chunks.
C34_StreamsShareNothing ==
    /\ ThisStream = Alone(ThisStream)
    /\ twin = Alone(twin)

\* C34 witness: both streams got the chunk with "import { Foo } from 'lib'"
\* and more, both ended, and both pushed that line.
C34_Witness ==
    /\ stage = "ended"
    /\ twin.stage = "ended"
    /\ Len(input) = MaxTwinChunks
    /\ Len(twin.input) = MaxTwinChunks
    /\ input[1] = ChunkA
    /\ twin.input[1] = ChunkA
    /\ keyword # twin.keyword
    /\ \A s \in {ThisStream, twin} :
           \E c \in 1..Len(s.out) :
               \E i \in 1..Len(TextLines(s.out[c].text)) :
                   TextLines(s.out[c].text)[i] = Str("import { Foo } from 'lib'")

(***************************************************************************)
(* Further claims about the placement of the import (under SpecPlace).     *)
(***************************************************************************)

\* The number of leading lines that are blank or comment lines.
LeadingRun(lines) ==
    Max({n \in 0..Len(lines) : \A i \in 1..n : BlankOrCommentLine(lines[i])})

C35_WitnessAppended ==
    /\ placeCall.fn = "asked"
    /\ placeCall.results = <<"added">>
    /\ Split(placeCall.file0, "\n") = <<Str("/*"), Str(" * c"), Str(" */"), <<>>>>
    /\ Split(placeCall.file, "\n") =
           <<Str("/*"), Str(" * c"), Str(" */"), <<>>, placeCall.line>>

\* The lines begin with a block comment that is opened on the first line and
\* closed on line c, a later one.
BlockCommentUpTo(lines, c) ==
    /\ c \in 2..Len(lines)
    /\ StartsWith(Trim(lines[1]), Str("/*"))
    /\ Includes(lines[c], Str("*/"))
    /\ \A j \in 1..(c - 1) : ~Includes(lines[j], Str("*/"))

\* C36 as claimed: when the file begins with a block comment closed on a later
\* line, the added line does not stand after the opening line and before the
\* closing line, whatever the lines inside the comment are.
C36_NotInsideLeadingComment ==
    (/\ placeCall.fn = "asked"
     /\ Len(placeCall.results) = 1
     /\ placeCall.results[1] = "added") =>
        LET old == Split(placeCall.file0, "\n")
            new == Split(placeCall.file, "\n")
        IN  \A c \in 2..Len(old) :
                BlockCommentUpTo(old, c) =>
                    \A p \in 2..c : new[p] # placeCall.line

(***************************************************************************)
(* Further claims about the scorer (checked under SpecScore).              *)
(***************************************************************************)

\* Neither the module path nor a symbol of the candidate contains the keyword.
NeitherSegment(c, kw) ==
    \/ c.form = "raw"
    \/ /\ ~Includes(c.path, kw)
       /\ \A i \in 1..Len(c.symbols) : ~Includes(c.symbols[i], kw)

\* What C37 says of one scored line.
ScoreIffContains(c, kw, score) ==
    /\ score > 0 <=> Includes(LineText(c), kw)
    /\ score \notin 1..9
    /\ score \notin 11..79
    /\ score = 10 <=> (Includes(LineText(c), kw) /\ NeitherSegment(c, kw))

\* C37: with a keyword that is not empty the score is positive if and only if
\* the line contains the keyword; it is 10 exactly when the line contains the
\* keyword but neither the module path nor the symbols do, and never in 1..9
\* or 11..79.
C37_PositiveIffContains ==
    (scoreCall.fn = "score" /\ scoreCall.kw # <<>>) =>
        /\ ScoreIffContains(scoreCall.a, scoreCall.kw, scoreCall.sa)
        /\ ScoreIffContains(scoreCall.b, scoreCall.kw, scoreCall.sb)

\* C37 witness: an import statement that contains the keyword only outside
\* its path and symbols scored 10, and one whose symbol contains the keyword
\* inside scored 80.
C37_Witness ==
    /\ scoreCall.fn = "score"
    /\ scoreCall.a.form = "default"
    /\ scoreCall.kw = Str("from")
    /\ scoreCall.sa = 10
    /\ scoreCall.b.form = "raw"
    /\ scoreCall.sb = 0

\* C37 witness: the keyword inside a symbol only: 80, the least score of a
\* segment.
C37_WitnessSegment ==
    /\ scoreCall.fn = "score"
    /\ scoreCall.kw = Str("oo")
    /\ scoreCall.a.form = "named"
    /\ scoreCall.sa = 80
    /\ scoreCall.b.form = "raw"
    /\ scoreCall.sb = 10

(***************************************************************************)
(* Claims about the invocation (checked under SpecCli).                    *)
(***************************************************************************)

\* C38: an invocation calls streamingSearchAndSelect at most once. Once the
\* argument is parsed the mode is position mode for file:row:col (with or
\* without a keyword), else keyword mode when a keyword is given, else
\* interactive mode. Without a session no subprocess exists; in position mode
\* with no symbol at the position no session is started and the file is as it
\* was.
C38_AtMostOneSession ==
    /\ cli.sessions <= 1
    /\ cli.state \in {"running", "done"} =>
           /\ cli.mode \in {"position", "keyword", "interactive"}
           /\ cli.mode = "position" <=> cli.form = "position"
           /\ cli.mode = "keyword" <=> (cli.form = "file" /\ cli.keyword # <<>>)
           /\ cli.mode = "interactive" <=> (cli.form = "file" /\ cli.keyword = <<>>)
    /\ cli.sessions = 0 =>
           /\ rgState = "none"
           /\ fzfState = "none"
           /\ caller = "none"
           /\ file = file0
    /\ cli.state = "done" =>
           /\ cli.mode = "position"
           /\ cli.sessions = 0
    /\ (cli.state = "running" /\ cli.mode = "position") =>
           /\ cli.sessions = 1
           /\ keyword = Str("Foo")

\* C38 witness: file:row:col and a keyword were given, the session ran for the
\* symbol at the position and its caller has resumed with a selected line.
C38_Witness ==
    /\ cli.state = "running"
    /\ cli.mode = "position"
    /\ cli.keyword # <<>>
    /\ cli.sessions = 1
    /\ keyword = Str("Foo")
    /\ outcome.kind = "line"
    /\ caller \notin {"none", "awaiting"}

\* C38 witness: position mode with a keyword, no symbol at the position.
C38_WitnessNoSymbol ==
    /\ cli.state = "done"
    /\ cli.mode = "position"
    /\ cli.keyword # <<>>
    /\ cli.sessions = 0

\* C38 witness: keyword mode and interactive mode each ran their session.
C38_WitnessKeyword ==
    /\ cli.mode = "keyword"
    /\ keyword = Str("Bar")
    /\ fzfState = "closed"

C38_WitnessInteractive ==
    /\ cli.mode = "interactive"
    /\ keyword = <<>>
    /\ fzfState = "closed"

====
